---- MODULE Spec2Model ----
(***************************************************************************)
(* Incremental CO2 pipeline: raw ingest (fetch_co2_data_incremental), the  *)
(* bucket of yearly objects and the first load from it, the change stream  *)
(* RAW_CO2.CO2_DATA_STREAM, the validation passes and the merge into the   *)
(* harmonized table (merge_raw_into_harmonized), the analytics functions   *)
(* (co2_percent_change, calculate_co2_volatility), the analytics run       *)
(* (create_analytics_tables) and force_stream_refresh_after_copy.          *)
(*                                                                         *)
(* The repository holds two deployments of the procedures: scripts/ and    *)
(* udfs_and_spoc/.  The variable deploy says which one a behaviour runs.   *)
(***************************************************************************)
EXTENDS Integers, Sequences, FiniteSets, TLC

VARIABLES
    deploy,       \* "scripts" or "udfs": which deployment of the procedures runs
    raw,          \* RAW_CO2.CO2_DATA: rows in insertion order; the index is the row id
    offset,       \* CO2_DATA_STREAM: number of raw rows at the stream's offset
    harmExists,   \* whether the harmonized table has been created
    harm,         \* the harmonized table: rows in insertion order
    wh,           \* size of the warehouse
    s3,           \* the bucket: for each year, the rows of {prefix}/{year}/co2_daily_mlo.csv
    loaded,       \* load metadata of RAW_CO2.CO2_DATA: the files COPY has loaded, as <<year, rows>>
    noaa,         \* the upstream file the extraction script reads
    runs,         \* how often the extraction script and the raw load have run
    hasData,      \* result of the last SYSTEM$STREAM_HAS_DATA call
    iPc,          \* position of the ingest run
    df_new,       \* ingest run: the new records
    iTodo,        \* ingest run: years still to load
    iPos,         \* ingest run: rows of the current year already tried by the batch or row loop
    iOut,         \* ingest run: returned message
    iBase,        \* ingest run: number of raw rows when the run started
    hPc,          \* position of the harmonization run
    hRead,        \* harmonization run: the stream rows the merge statement read
    mergeResult,  \* harmonization run: what the merge statement returned
    hCount,       \* harmonization run: invalid_count
    hRes,         \* harmonization run: returned value
    hHarm0,       \* harmonization run: the harmonized table when the run started
    hOff0,        \* harmonization run: the stream offset when the run started
    hOut,         \* harmonization run: the message main returns
    vPc,          \* validator walk: the pass reached
    vIn,          \* validator walk: the stream read given to the passes
    vRows,        \* validator walk: the dataframe after the pass reached
    uArgs,        \* function call: the two arguments handed to the functions
    uOut,         \* function call: what each function returned for them
    aPc,          \* position of the analytics run
    minmax,       \* whether a table _CO2_MINMAX can be read
    daily,        \* the daily analytics table
    weekly,       \* the weekly analytics table
    aOut,         \* analytics run: returned message
    deleted,      \* ids of the raw rows deleted from RAW_CO2.CO2_DATA
    rPc,          \* position of force_stream_refresh_after_copy
    rOut          \* force_stream_refresh_after_copy: returned value

vars == <<deploy, raw, offset, harmExists, harm, wh, s3, loaded, noaa, runs, hasData,
          iPc, df_new, iTodo, iPos, iOut, iBase,
          hPc, hRead, mergeResult, hCount, hRes, hHarm0, hOff0, hOut,
          vPc, vIn, vRows,
          uArgs, uOut, aPc, minmax, daily, weekly, aOut, deleted, rPc, rOut>>

pipeVars == <<deploy, raw, offset, harmExists, harm, wh, s3, loaded, noaa, runs, hasData,
              iPc, df_new, iTodo, iPos, iOut, iBase,
              hPc, hRead, mergeResult, hCount, hRes, hHarm0, hOff0, hOut>>

ingestVars == <<iPc, df_new, iTodo, iPos, iOut, iBase>>
harmVars == <<hPc, hRead, mergeResult, hCount, hRes, hHarm0, hOff0, hOut>>
valVars == <<vPc, vIn, vRows>>
loadVars == <<noaa, runs>>
udfVars == <<uArgs, uOut>>
anaVars == <<aPc, minmax, daily, weekly, aOut>>
refreshVars == <<deleted, rPc, rOut>>
sideVars == <<udfVars, anaVars, refreshVars>>

----------------------------------------------------------------------------
(* Bounds and input domains *)

\* rows the upstream delivers: in one response, and new rows over all runs
MaxRows == 2

\* rows in the stream read walked through the validator passes one by one
MaxBatch == 2

\* datetime.date.today() / datetime.datetime.now(): fixed during a behaviour
Today == [year |-> 2024, month |-> 2, day |-> 1]

NULL == "NULL"

\* calendar days the upstream feed can carry, as <<year, month, day>>
FeedDays == { <<2023, 2, 1>>, <<2024, 1, 1>>, <<2024, 2, 1>>, <<2025, 1, 1>> }

\* concentrations the upstream feed can carry
FeedPpm == { 400, 410 }

\* calendar days and concentrations of the stream reads given to the validator walk
ValDays == { <<1949, 1, 1>>, <<1950, 1, 1>>, <<1951, 1, 1>>, <<2024, 1, 1>>,
             <<2024, 1, 2>>, <<2024, 2, 1>>, <<2024, 2, 2>>, <<2025, 1, 1>> }
ValPpm == { 100, 200, 410, 500, 600 }

Measurement(dy, p) == [year |-> dy[1], month |-> dy[2], day |-> dy[3], ppm |-> p]

FeedRows == { Measurement(dy, p) : dy \in FeedDays, p \in FeedPpm }
ValRows == { Measurement(dy, p) : dy \in ValDays, p \in ValPpm }

\* sequences over S of length 0..n
SeqUpTo(S, n) == UNION { [1..k -> S] : k \in 0..n }

----------------------------------------------------------------------------
(* Dates *)

\* TO_DATE(CONCAT(LPAD(YEAR,4,'0'),'-',LPAD(MONTH,2,'0'),'-',LPAD(DAY,2,'0'))):
\* the date as the number yyyymmdd, which orders as the calendar does
to_date(y, m, d) == y * 10000 + m * 100 + d

RowDate(r) == to_date(r.year, r.month, r.day)

SeqMax(s) == CHOOSE x \in { s[i] : i \in DOMAIN s } : \A j \in DOMAIN s : s[j] <= x

\* SELECT MAX(TO_DATE(...)) FROM RAW_CO2.CO2_DATA; None, written 0, on an empty table
latest_date(r) == IF Len(r) = 0 THEN 0 ELSE SeqMax([i \in DOMAIN r |-> RowDate(r[i])])

\* distinct values of s in ascending order (groupby keys)
RECURSIVE SortedSeq(_)
SortedSeq(S) ==
    IF S = {} THEN <<>>
    ELSE LET m == CHOOSE x \in S : \A y \in S : x <= y
         IN <<m>> \o SortedSeq(S \ {m})

----------------------------------------------------------------------------
(* The change stream *)

\* SELECT ... FROM RAW_CO2.CO2_DATA_STREAM: the raw rows after the offset,
\* each with METADATA$ACTION and METADATA$ROW_ID
StreamRows(r, off) ==
    [k \in 1..(Len(r) - off) |->
        [year |-> r[off + k].year, month |-> r[off + k].month, day |-> r[off + k].day,
         ppm |-> r[off + k].ppm, action |-> "INSERT", rid |-> off + k]]

\* a probe that would move the offset, as the comments beside the calls say
SYSTEM_STREAM_HAS_DATA_advancing ==
    /\ hasData' = (offset < Len(raw))
    /\ offset' = Len(raw)

\* SYSTEM$STREAM_HAS_DATA('RAW_CO2.CO2_DATA_STREAM'): reads, leaves the offset alone
SYSTEM_STREAM_HAS_DATA ==
    /\ hasData' = (offset < Len(raw))
    /\ offset' = offset

----------------------------------------------------------------------------
(* The validation passes of scripts/co2_harmonized_sp *)

FloorYear == 1950
PpmLow == 200
PpmHigh == 500

\* select, filter on METADATA$ACTION and the CO2_DATE column
source_with_date(events) ==
    LET kept == SelectSeq(events, LAMBDA e : e.action \in {"INSERT", "UPDATE"})
    IN [i \in DOMAIN kept |->
           [year |-> kept[i].year, month |-> kept[i].month, day |-> kept[i].day,
            ppm |-> kept[i].ppm, rid |-> kept[i].rid,
            date |-> to_date(kept[i].year, kept[i].month, kept[i].day),
            status |-> NULL]]

NotFuture(r) ==
    \/ r.year < Today.year
    \/ (r.year = Today.year /\ r.month < Today.month)
    \/ (r.year = Today.year /\ r.month = Today.month /\ r.day <= Today.day)

TimestampStatus(r) ==
    IF \/ (r.year > FloorYear /\ r.year < Today.year)
       \/ (r.year = Today.year /\ r.month <= Today.month /\ r.day <= Today.day)
    THEN "VALID" ELSE "INVALID_DATE"

validate_timestamps(source) ==
    LET valid_dates == SelectSeq(SelectSeq(source, NotFuture), LAMBDA r : r.year >= FloorYear)
    IN [i \in DOMAIN valid_dates |->
           [valid_dates[i] EXCEPT !.status = TimestampStatus(valid_dates[i])]]

\* a value pass without the branch that keeps INVALID_DATE
validate_data_consistency_overwriting(source) ==
    [i \in DOMAIN source |->
        [source[i] EXCEPT !.status =
            IF source[i].ppm >= PpmLow /\ source[i].ppm <= PpmHigh /\ source[i].status = "VALID"
            THEN "VALID"
            ELSE "INVALID_CO2_VALUE"]]

validate_data_consistency(source) ==
    [i \in DOMAIN source |->
        [source[i] EXCEPT !.status =
            IF source[i].ppm >= PpmLow /\ source[i].ppm <= PpmHigh /\ source[i].status = "VALID"
            THEN "VALID"
            ELSE IF source[i].status = "INVALID_DATE" THEN "INVALID_DATE"
            ELSE "INVALID_CO2_VALUE"]]

\* groupBy(YEAR, MONTH, DAY).count() joined back on YEAR, MONTH, DAY
DateCount(source, r) ==
    Cardinality({ j \in DOMAIN source :
        source[j].year = r.year /\ source[j].month = r.month /\ source[j].day = r.day })

\* a duplicate pass that spares the first row of each day
check_duplicates_extras_only(source) ==
    [i \in DOMAIN source |->
        [source[i] EXCEPT !.status =
            IF /\ \E j \in 1..(i - 1) : source[j].year = source[i].year
                                        /\ source[j].month = source[i].month
                                        /\ source[j].day = source[i].day
               /\ source[i].status = "VALID"
            THEN "DUPLICATE_DATE" ELSE source[i].status]]

check_duplicates(source) ==
    [i \in DOMAIN source |->
        [source[i] EXCEPT !.status =
            IF DateCount(source, source[i]) > 1 /\ source[i].status = "VALID"
            THEN "DUPLICATE_DATE" ELSE source[i].status]]

\* the dataframe `source` of merge_raw_into_harmonized after the three passes
validated_source(events) ==
    check_duplicates(validate_data_consistency(validate_timestamps(source_with_date(events))))

\* source.filter(VALIDATION_STATUS == "VALID") and its complement
filter_valid(source) == SelectSeq(source, LAMBDA r : r.status = "VALID")

filter_invalid(source) == SelectSeq(source, LAMBDA r : r.status # "VALID")

valid_source(events) == filter_valid(validated_source(events))

invalid_records(events) == filter_invalid(validated_source(events))

\* the source dataframe of udfs_and_spoc/co2_harmonized_sp: the stream with a DATE column
source_df(events) ==
    [i \in DOMAIN events |->
        [year |-> events[i].year, month |-> events[i].month, day |-> events[i].day,
         ppm |-> events[i].ppm, rid |-> events[i].rid,
         date |-> to_date(events[i].year, events[i].month, events[i].day),
         status |-> NULL]]

----------------------------------------------------------------------------
(* MERGE INTO the harmonized table *)

\* the columns a source row writes
columns_to_update(s) ==
    [date |-> s.date, ppm |-> s.ppm, site |-> "MAUNA_LOA", status |-> s.status, rid |-> s.rid]

updates(s) ==
    [date |-> s.date, ppm |-> s.ppm, site |-> NULL, status |-> NULL, rid |-> NULL]

Matches(t, src) == { j \in DOMAIN src : src[j].date = t.date }

Unmatched(target, src) ==
    SelectSeq(src, LAMBDA s : \A i \in DOMAIN target : target[i].date # s.date)

\* a target row joined by several source rows: the statement is rejected
\* (ERROR_ON_NONDETERMINISTIC_MERGE is on by default)
NondeterministicMerge(target, src) ==
    \E i \in DOMAIN target : Cardinality(Matches(target[i], src)) > 1

\* a merge whose join never matches
MergeRows_insert_always(target, src) ==
    target \o src

\* when_matched().update(...), when_not_matched().insert(...), both decided
\* against the target as it was before the statement; src holds the source
\* rows as the columns they write
MergeRows(target, src) ==
    LET upd == [i \in DOMAIN target |->
                   IF Matches(target[i], src) = {} THEN target[i]
                   ELSE src[CHOOSE j \in Matches(target[i], src) : TRUE]]
    IN upd \o Unmatched(target, src)

MergeCounts(target, src) ==
    [rows_inserted |-> Len(Unmatched(target, src)),
     rows_updated |-> Cardinality({ i \in DOMAIN target : Matches(target[i], src) # {} })]

NoMerge == [rows_inserted |-> 0, rows_updated |-> 0]

----------------------------------------------------------------------------
(* Harmonization, scripts/co2_harmonized_sp: main -> merge_raw_into_harmonized *)

Result(err, valid, ins, upd, skipped) ==
    [returned |-> TRUE, error |-> err, valid_records_processed |-> valid,
     rows_inserted |-> ins, rows_updated |-> upd, invalid_records_skipped |-> skipped]

\* no value returned yet
Running == [Result(FALSE, 0, 0, 0, 0) EXCEPT !.returned = FALSE]

ReadIds(events) == { events[i].rid : i \in DOMAIN events }

\* the message of main: its kind, whether it carries the cause of an error,
\* and the counts it prints
MainMessage(kind, cause, res) ==
    [kind |-> kind, cause |-> cause,
     valid |-> res.valid_records_processed, inserted |-> res.rows_inserted,
     updated |-> res.rows_updated, skipped |-> res.invalid_records_skipped]

NoMessage == MainMessage("NONE", FALSE, Running)

\* main builds its message from what merge_raw_into_harmonized returned:
\* scripts/ prints the counts of the result whatever it holds, udfs_and_spoc/
\* tells True from False
main_message(res) ==
    IF deploy = "scripts" THEN MainMessage("COMPLETE", FALSE, res)
    ELSE IF ~res.error THEN MainMessage("COMPLETE", FALSE, Running)
    ELSE MainMessage("ERROR_merge", FALSE, Running)

\* merge_raw_into_harmonized returns res and main returns its message
MergeReturn(res) ==
    /\ hPc' = "returned" /\ hRes' = res
    /\ hOut' = main_message(res)
    /\ UNCHANGED <<hRead, mergeResult, hCount, hHarm0, hOff0>>

\* the call: the dataframes are only described here; the target table is
\* created when it is missing
merge_begin ==
    /\ deploy = "scripts"
    /\ hPc = "idle"
    /\ hPc' = "merge"
    /\ hHarm0' = harm /\ hOff0' = offset
    /\ UNCHANGED <<hRead, mergeResult, hCount, hRes, hOut>>
    /\ harmExists' = TRUE
    /\ UNCHANGED <<s3, loaded, deploy, raw, offset, harm, wh, hasData>>
    /\ UNCHANGED ingestVars /\ UNCHANGED valVars /\ UNCHANGED sideVars /\ UNCHANGED loadVars

\* target.merge(...): one statement that reads the stream, writes the target
\* and moves the stream offset when it commits
merge_statement ==
    /\ deploy = "scripts"
    /\ hPc = "merge"
    /\ LET events == StreamRows(raw, offset)
           src == valid_source(events)
       IN /\ ~NondeterministicMerge(harm, src)
          /\ harm' = MergeRows(harm, [k \in DOMAIN src |-> columns_to_update(src[k])])
          /\ mergeResult' = MergeCounts(harm, src)
          /\ hRead' = events
    /\ offset' = Len(raw)
    /\ hPc' = "count_invalid"
    /\ UNCHANGED <<s3, loaded, deploy, raw, harmExists, wh, hasData>>
    /\ UNCHANGED <<hCount, hRes, hHarm0, hOff0, hOut>>
    /\ UNCHANGED ingestVars /\ UNCHANGED valVars /\ UNCHANGED sideVars /\ UNCHANGED loadVars

\* invalid_records.count() runs the query on the stream again, then the probe
merge_count_invalid ==
    /\ deploy = "scripts"
    /\ hPc = "count_invalid"
    /\ hCount' = Len(invalid_records(StreamRows(raw, offset)))
    /\ SYSTEM_STREAM_HAS_DATA
    /\ hPc' = "report"
    /\ UNCHANGED <<s3, loaded, deploy, raw, harmExists, harm, wh>>
    /\ UNCHANGED <<hRead, mergeResult, hRes, hHarm0, hOff0, hOut>>
    /\ UNCHANGED ingestVars /\ UNCHANGED valVars /\ UNCHANGED sideVars /\ UNCHANGED loadVars

\* valid_source.count() runs the query on the stream again; the merge result
\* is read as one row
merge_return ==
    /\ deploy = "scripts"
    /\ hPc = "report"
    /\ MergeReturn(Result(FALSE,
                           Len(valid_source(StreamRows(raw, offset))),
                           IF mergeResult.rows_inserted > 0 THEN 1 ELSE 0,
                           IF mergeResult.rows_updated > 0 THEN 1 ELSE 0,
                           hCount))
    /\ UNCHANGED <<s3, loaded, deploy, raw, offset, harmExists, harm, wh, hasData>>
    /\ UNCHANGED ingestVars /\ UNCHANGED valVars /\ UNCHANGED sideVars /\ UNCHANGED loadVars

\* except Exception: any statement of the try block raised
merge_except ==
    /\ deploy = "scripts"
    /\ hPc \in {"merge", "count_invalid", "report"}
    /\ MergeReturn(Result(TRUE, 0, 0, 0, 0))
    /\ UNCHANGED <<s3, loaded, deploy, raw, offset, harmExists, harm, wh, hasData>>
    /\ UNCHANGED ingestVars /\ UNCHANGED valVars /\ UNCHANGED sideVars /\ UNCHANGED loadVars

----------------------------------------------------------------------------
(* Harmonization, udfs_and_spoc/co2_harmonized_sp: main -> merge_raw_into_harmonized *)

\* main: the table is created when missing, then the merge is called
udf_merge_begin ==
    /\ deploy = "udfs"
    /\ hPc = "idle"
    /\ hPc' = "scale_up"
    /\ hHarm0' = harm /\ hOff0' = offset
    /\ UNCHANGED <<hRead, mergeResult, hCount, hRes, hOut>>
    /\ harmExists' = TRUE
    /\ UNCHANGED <<s3, loaded, deploy, raw, offset, harm, wh, hasData>>
    /\ UNCHANGED ingestVars /\ UNCHANGED valVars /\ UNCHANGED sideVars /\ UNCHANGED loadVars

udf_merge_scale_up ==
    /\ deploy = "udfs"
    /\ hPc = "scale_up"
    /\ wh' = "XLARGE"
    /\ hPc' = "stream_count"
    /\ UNCHANGED <<s3, loaded, deploy, raw, offset, harmExists, harm, hasData>>
    /\ UNCHANGED <<hRead, mergeResult, hCount, hRes, hHarm0, hOff0, hOut>>
    /\ UNCHANGED ingestVars /\ UNCHANGED valVars /\ UNCHANGED sideVars /\ UNCHANGED loadVars

\* SELECT COUNT(*) FROM the stream; an empty stream returns True at once
udf_merge_stream_count ==
    /\ deploy = "udfs"
    /\ hPc = "stream_count"
    /\ IF Len(raw) - offset = 0
       THEN /\ hRes' = [Running EXCEPT !.error = FALSE]
            /\ hPc' = "finally"
       ELSE /\ hRes' = hRes
            /\ hPc' = "merge"
    /\ UNCHANGED <<s3, loaded, deploy, raw, offset, harmExists, harm, wh, hasData>>
    /\ UNCHANGED <<hRead, mergeResult, hCount, hHarm0, hOff0, hOut>>
    /\ UNCHANGED ingestVars /\ UNCHANGED valVars /\ UNCHANGED sideVars /\ UNCHANGED loadVars

\* target_df.merge(source_df, ...): every stream row is a source row
udf_merge_statement ==
    /\ deploy = "udfs"
    /\ hPc = "merge"
    /\ LET events == StreamRows(raw, offset)
           src == source_df(events)
       IN /\ ~NondeterministicMerge(harm, src)
          /\ harm' = MergeRows(harm, [k \in DOMAIN src |-> updates(src[k])])
          /\ mergeResult' = MergeCounts(harm, src)
          /\ hRead' = events
    /\ offset' = Len(raw)
    /\ hRes' = [Running EXCEPT !.error = FALSE]
    /\ hPc' = "finally"
    /\ UNCHANGED <<s3, loaded, deploy, raw, harmExists, wh, hasData>>
    /\ UNCHANGED <<hCount, hHarm0, hOff0, hOut>>
    /\ UNCHANGED ingestVars /\ UNCHANGED valVars /\ UNCHANGED sideVars /\ UNCHANGED loadVars

\* except Exception: return False
udf_merge_except ==
    /\ deploy = "udfs"
    /\ hPc \in {"scale_up", "stream_count", "merge"}
    /\ hRes' = [Running EXCEPT !.error = TRUE]
    /\ hPc' = "finally"
    /\ UNCHANGED <<s3, loaded, deploy, raw, offset, harmExists, harm, wh, hasData>>
    /\ UNCHANGED <<hRead, mergeResult, hCount, hHarm0, hOff0, hOut>>
    /\ UNCHANGED ingestVars /\ UNCHANGED valVars /\ UNCHANGED sideVars /\ UNCHANGED loadVars

\* finally: the scale-down and its own try/except, then the return
udf_merge_finally ==
    /\ deploy = "udfs"
    /\ hPc = "finally"
    /\ wh' \in {"XSMALL", wh}
    /\ MergeReturn([hRes EXCEPT !.returned = TRUE])
    /\ UNCHANGED <<s3, loaded, deploy, raw, offset, harmExists, harm, hasData>>
    /\ UNCHANGED ingestVars /\ UNCHANGED valVars /\ UNCHANGED sideVars /\ UNCHANGED loadVars

\* except Exception in main of udfs_and_spoc/: a statement before the call of
\* merge_raw_into_harmonized raised
udf_main_error ==
    /\ deploy = "udfs"
    /\ hPc = "idle"
    /\ hPc' = "returned"
    /\ hOut' = MainMessage("ERROR_main", TRUE, Running)
    /\ hHarm0' = harm /\ hOff0' = offset
    /\ UNCHANGED <<hRead, mergeResult, hCount, hRes>>
    /\ UNCHANGED <<s3, loaded, deploy, raw, offset, harmExists, harm, wh, hasData>>
    /\ UNCHANGED ingestVars /\ UNCHANGED valVars /\ UNCHANGED sideVars /\ UNCHANGED loadVars

\* the caller has the message of main (either deployment); the locals of the
\* run are gone
main_return ==
    /\ hPc = "returned"
    /\ hPc' = "idle" /\ hRes' = Running
    /\ hRead' = <<>> /\ mergeResult' = NoMerge /\ hCount' = 0
    /\ hHarm0' = <<>> /\ hOff0' = 0 /\ hOut' = NoMessage
    /\ UNCHANGED <<s3, loaded, deploy, raw, offset, harmExists, harm, wh, hasData>>
    /\ UNCHANGED ingestVars /\ UNCHANGED valVars /\ UNCHANGED sideVars /\ UNCHANGED loadVars

----------------------------------------------------------------------------
(* scripts/02_create_rawco2data_stream.py *)

check_stream_without_consuming ==
    /\ SYSTEM_STREAM_HAS_DATA
    /\ UNCHANGED <<s3, loaded, deploy, raw, harmExists, harm, wh>>
    /\ UNCHANGED ingestVars /\ UNCHANGED harmVars /\ UNCHANGED valVars /\ UNCHANGED sideVars /\ UNCHANGED loadVars

\* CREATE OR REPLACE STREAM ... SHOW_INITIAL_ROWS = true: the first read of the
\* new stream returns every row that is in the raw table
create_raw_co2_stream ==
    /\ offset' = 0
    /\ UNCHANGED <<s3, loaded, deploy, raw, harmExists, harm, wh, hasData>>
    /\ UNCHANGED ingestVars /\ UNCHANGED harmVars /\ UNCHANGED valVars /\ UNCHANGED sideVars /\ UNCHANGED loadVars

----------------------------------------------------------------------------
(* Raw ingest: fetch_co2_data_incremental, both deployments *)

\* the upstream file lists the days in calendar order
Chronological(lines) ==
    \A i \in 1..(Len(lines) - 1) : RowDate(lines[i]) <= RowDate(lines[i + 1])

Responses == { lines \in SeqUpTo(FeedRows, MaxRows) : Chronological(lines) }

\* parsed_data: the lines of the current year and later; df adds the Date column
parse(lines) ==
    LET kept == SelectSeq(lines, LAMBDA l : l.year >= Today.year)
    IN [i \in DOMAIN kept |->
           [year |-> kept[i].year, month |-> kept[i].month, day |-> kept[i].day,
            ppm |-> kept[i].ppm,
            date |-> to_date(kept[i].year, kept[i].month, kept[i].day)]]

\* a filter that would keep the latest raw date itself
new_records_not_strict(df, latest) ==
    IF latest # 0 THEN SelectSeq(df, LAMBDA r : r.date >= latest) ELSE df

\* df_new: the records dated after the latest raw date, all of them on an empty table
new_records(df, latest) ==
    IF latest # 0 THEN SelectSeq(df, LAMBDA r : r.date > latest) ELSE df

\* year_df.drop(columns=["Date"]) written as CSV: the five columns of one year
upload_df(df, y) ==
    LET year_df == SelectSeq(df, LAMBDA r : r.year = y)
    IN [i \in DOMAIN year_df |->
           [year |-> year_df[i].year, month |-> year_df[i].month,
            day |-> year_df[i].day, ppm |-> year_df[i].ppm]]

\* neither script has run
NoRuns == [uploads |-> 0, loads |-> 0]

\* the years that have a partition in the bucket
PartitionYears == { dy[1] : dy \in FeedDays \cup ValDays }

\* no object under the prefix
NoBlobs == [y \in PartitionYears |-> <<>>]

\* s3_client.put_object(Key = {PARENT_FOLDER}/{year}/co2_daily_mlo.csv): the
\* object of the year is replaced
put_object(store, y, rows) == [store EXCEPT ![y] = rows]

Years(df) == SortedSeq({ df[i].year : i \in DOMAIN df })

Message(kind, n) == [kind |-> kind, rows |-> n]

\* COPY INTO RAW_CO2.CO2_DATA from the year's partition.  The blob there is
\* the one this run has just written, and its rows are all dated after every
\* raw row, so the load metadata holds no file of the same content.
CopyFrom(r, df, y) == r \o upload_df(df, y)

IngestIdle == iPc = "idle"

\* return msg
IngestReturn(msg) ==
    /\ iPc' = "returned" /\ iOut' = msg
    /\ UNCHANGED <<df_new, iTodo, iPos, iBase>>

\* the latest-date query raised
fetch_latest_date_error ==
    /\ IngestIdle
    /\ IngestReturn(Message("ERROR_latest_date", 0))
    /\ UNCHANGED <<s3, loaded, deploy, raw, offset, harmExists, harm, wh, hasData>>
    /\ UNCHANGED harmVars /\ UNCHANGED valVars /\ UNCHANGED sideVars /\ UNCHANGED loadVars

\* a fetch that would take a non-success status for an empty response
fetch_status_error_as_empty ==
    /\ IngestIdle
    /\ IngestReturn(Message("NO_NEW_DATA", 0))
    /\ UNCHANGED <<s3, loaded, deploy, raw, offset, harmExists, harm, wh, hasData>>
    /\ UNCHANGED harmVars /\ UNCHANGED valVars /\ UNCHANGED sideVars /\ UNCHANGED loadVars

\* response.status_code != 200
fetch_status_error ==
    /\ IngestIdle
    /\ IngestReturn(Message("ERROR_fetch_status", 0))
    /\ UNCHANGED <<s3, loaded, deploy, raw, offset, harmExists, harm, wh, hasData>>
    /\ UNCHANGED harmVars /\ UNCHANGED valVars /\ UNCHANGED sideVars /\ UNCHANGED loadVars

\* the dataframes df the responses parse to
ParsedResponses == { parse(lines) : lines \in Responses }

\* what is left of df after the filter for new records: whether parsed_data
\* was empty, and df_new
Filtered(df, latest) == [none_parsed |-> Len(df) = 0, new |-> new_records(df, latest)]

\* latest-date query, fetch, parse and the filter for new records
fetch_begin ==
    /\ IngestIdle
    /\ \E got \in { Filtered(df, latest_date(raw)) : df \in ParsedResponses } :
         /\ Len(raw) + Len(got.new) <= MaxRows
         /\ IF deploy = "udfs" /\ got.none_parsed
            THEN IngestReturn(Message("ERROR_no_valid_data", 0))
            ELSE IF Len(got.new) = 0
            THEN IngestReturn(Message("NO_NEW_DATA", 0))
            ELSE /\ iPc' = IF deploy = "scripts" THEN "upload" ELSE "scale_up"
                 /\ iOut' = Message("NONE", 0)
                 /\ df_new' = got.new
                 /\ iTodo' = Years(got.new)
                 /\ iPos' = 0 /\ iBase' = Len(raw)
    /\ UNCHANGED <<s3, loaded, deploy, raw, offset, harmExists, harm, wh, hasData>>
    /\ UNCHANGED harmVars /\ UNCHANGED valVars /\ UNCHANGED sideVars /\ UNCHANGED loadVars

\* main hands the message of fetch_co2_data_incremental to its caller; the
\* locals of the run are gone
ingest_main_return ==
    /\ iPc = "returned"
    /\ iPc' = "idle" /\ iOut' = Message("NONE", 0)
    /\ df_new' = <<>> /\ iTodo' = <<>> /\ iPos' = 0 /\ iBase' = 0
    /\ UNCHANGED <<s3, loaded, deploy, raw, offset, harmExists, harm, wh, hasData>>
    /\ UNCHANGED harmVars /\ UNCHANGED valVars /\ UNCHANGED sideVars /\ UNCHANGED loadVars

(* scripts/loading_co2_data_sp *)

\* s3_client.put_object for the next year of the groupby
ingest_upload ==
    /\ deploy = "scripts" /\ iPc = "upload"
    /\ IF Len(iTodo) = 1
       THEN iPc' = "scale_up" /\ iTodo' = Years(df_new)
       ELSE iPc' = iPc /\ iTodo' = Tail(iTodo)
    /\ s3' = put_object(s3, Head(iTodo), upload_df(df_new, Head(iTodo)))
    /\ UNCHANGED <<loaded, deploy, raw, offset, harmExists, harm, wh, hasData>>
    /\ UNCHANGED <<df_new, iPos, iOut, iBase>>
    /\ UNCHANGED harmVars /\ UNCHANGED valVars /\ UNCHANGED sideVars /\ UNCHANGED loadVars

ingest_scale_up ==
    /\ deploy = "scripts" /\ iPc = "scale_up"
    /\ wh' = "LARGE"
    /\ iPc' = "copy"
    /\ UNCHANGED <<s3, loaded, deploy, raw, offset, harmExists, harm, hasData>>
    /\ UNCHANGED <<df_new, iTodo, iPos, iOut, iBase>>
    /\ UNCHANGED harmVars /\ UNCHANGED valVars /\ UNCHANGED sideVars /\ UNCHANGED loadVars

\* COPY INTO RAW_CO2.CO2_DATA for the next year
ingest_copy ==
    /\ deploy = "scripts" /\ iPc = "copy"
    /\ raw' = CopyFrom(raw, df_new, Head(iTodo))
    /\ loaded' = loaded \cup { <<Head(iTodo), s3[Head(iTodo)]>> }
    /\ iTodo' = Tail(iTodo)
    /\ iPc' = IF Len(iTodo) = 1 THEN "scale_down" ELSE iPc
    /\ UNCHANGED <<s3, deploy, offset, harmExists, harm, wh, hasData>>
    /\ UNCHANGED <<df_new, iPos, iOut, iBase>>
    /\ UNCHANGED harmVars /\ UNCHANGED valVars /\ UNCHANGED sideVars /\ UNCHANGED loadVars

ingest_scale_down ==
    /\ deploy = "scripts" /\ iPc = "scale_down"
    /\ wh' = "XSMALL"
    /\ iPc' = "finish"
    /\ UNCHANGED <<s3, loaded, deploy, raw, offset, harmExists, harm, hasData>>
    /\ UNCHANGED <<df_new, iTodo, iPos, iOut, iBase>>
    /\ UNCHANGED harmVars /\ UNCHANGED valVars /\ UNCHANGED sideVars /\ UNCHANGED loadVars

\* the count of INSERT rows in the stream, the probe and the message
ingest_finish ==
    /\ deploy = "scripts" /\ iPc = "finish"
    /\ IngestReturn(Message("LOADED", Len(StreamRows(raw, offset))))
    /\ SYSTEM_STREAM_HAS_DATA
    /\ UNCHANGED <<s3, loaded, deploy, raw, harmExists, harm, wh>>
    /\ UNCHANGED harmVars /\ UNCHANGED valVars /\ UNCHANGED sideVars /\ UNCHANGED loadVars

\* except Exception: a statement after the filter raised
ingest_except ==
    /\ deploy = "scripts"
    /\ iPc \in {"upload", "scale_up", "copy", "scale_down", "finish"}
    /\ IngestReturn(Message("ERROR_pipeline", 0))
    /\ UNCHANGED <<s3, loaded, deploy, raw, offset, harmExists, harm, wh, hasData>>
    /\ UNCHANGED harmVars /\ UNCHANGED valVars /\ UNCHANGED sideVars /\ UNCHANGED loadVars

(* udfs_and_spoc/loading_co2_data_sp *)

\* rows per INSERT statement of the direct-insert fallback.  The source sets
\* 100; the model keeps the loop and scales the size down so that a fetch of
\* MaxRows rows spans more than one statement.
batch_size == 1

Min(a, b) == IF a < b THEN a ELSE b

\* the year is finished: the next year, or the count when none is left
NextYear ==
    /\ iTodo' = Tail(iTodo)
    /\ iPos' = 0
    /\ iPc' = IF Len(iTodo) = 1 THEN "finish" ELSE "stage"

\* the scale-up has its own try/except: a failure is only logged
udf_ingest_scale_up ==
    /\ deploy = "udfs" /\ iPc = "scale_up"
    /\ wh' \in {"LARGE", wh}
    /\ iPc' = "stage"
    /\ UNCHANGED <<s3, loaded, deploy, raw, offset, harmExists, harm, hasData>>
    /\ UNCHANGED <<df_new, iTodo, iPos, iOut, iBase>>
    /\ UNCHANGED harmVars /\ UNCHANGED valVars /\ UNCHANGED sideVars /\ UNCHANGED loadVars

\* put to the user stage, copy to the external stage, COPY INTO the raw table
udf_ingest_stage ==
    /\ deploy = "udfs" /\ iPc = "stage"
    /\ s3' = put_object(s3, Head(iTodo), upload_df(df_new, Head(iTodo)))
    /\ raw' = CopyFrom(raw, df_new, Head(iTodo))
    /\ loaded' = loaded \cup { <<Head(iTodo), upload_df(df_new, Head(iTodo))>> }
    /\ NextYear
    /\ UNCHANGED <<deploy, offset, harmExists, harm, wh, hasData>>
    /\ UNCHANGED <<df_new, iOut, iBase>>
    /\ UNCHANGED harmVars /\ UNCHANGED valVars /\ UNCHANGED sideVars /\ UNCHANGED loadVars

\* except Exception as stage_error: the put to the user stage (it is handed
\* the CSV text where a path is expected) or the copy from stage to stage
\* raised, before anything is written to the bucket
udf_ingest_stage_error ==
    /\ deploy = "udfs" /\ iPc = "stage"
    /\ iPc' = "batch" /\ iPos' = 0
    /\ UNCHANGED <<s3, loaded, deploy, raw, offset, harmExists, harm, wh, hasData>>
    /\ UNCHANGED <<df_new, iTodo, iOut, iBase>>
    /\ UNCHANGED harmVars /\ UNCHANGED valVars /\ UNCHANGED sideVars /\ UNCHANGED loadVars

\* one INSERT ... VALUES statement of the batch loop
udf_ingest_batch ==
    /\ deploy = "udfs" /\ iPc = "batch"
    /\ LET records == upload_df(df_new, Head(iTodo))
           last == Min(iPos + batch_size, Len(records))
       IN /\ raw' = raw \o SubSeq(records, iPos + 1, last)
          /\ IF last = Len(records)
             THEN NextYear
             ELSE iPos' = last /\ iPc' = iPc /\ iTodo' = iTodo
    /\ UNCHANGED <<s3, loaded, deploy, offset, harmExists, harm, wh, hasData>>
    /\ UNCHANGED <<df_new, iOut, iBase>>
    /\ UNCHANGED harmVars /\ UNCHANGED valVars /\ UNCHANGED sideVars /\ UNCHANGED loadVars

\* except Exception as insert_error: the row loop starts over the whole upload_df
udf_ingest_batch_error ==
    /\ deploy = "udfs" /\ iPc = "batch"
    /\ iPc' = "rows" /\ iPos' = 0
    /\ UNCHANGED <<s3, loaded, deploy, raw, offset, harmExists, harm, wh, hasData>>
    /\ UNCHANGED <<df_new, iTodo, iOut, iBase>>
    /\ UNCHANGED harmVars /\ UNCHANGED valVars /\ UNCHANGED sideVars /\ UNCHANGED loadVars

\* one INSERT of the row loop
udf_ingest_row ==
    /\ deploy = "udfs" /\ iPc = "rows"
    /\ LET records == upload_df(df_new, Head(iTodo))
       IN /\ raw' = Append(raw, records[iPos + 1])
          /\ IF iPos + 1 = Len(records)
             THEN NextYear
             ELSE iPos' = iPos + 1 /\ iPc' = iPc /\ iTodo' = iTodo
    /\ UNCHANGED <<s3, loaded, deploy, offset, harmExists, harm, wh, hasData>>
    /\ UNCHANGED <<df_new, iOut, iBase>>
    /\ UNCHANGED harmVars /\ UNCHANGED valVars /\ UNCHANGED sideVars /\ UNCHANGED loadVars

\* except Exception as row_error: the row is skipped
udf_ingest_row_error ==
    /\ deploy = "udfs" /\ iPc = "rows"
    /\ LET records == upload_df(df_new, Head(iTodo))
       IN IF iPos + 1 = Len(records)
          THEN NextYear
          ELSE iPos' = iPos + 1 /\ iPc' = iPc /\ iTodo' = iTodo
    /\ UNCHANGED <<s3, loaded, deploy, raw, offset, harmExists, harm, wh, hasData>>
    /\ UNCHANGED <<df_new, iOut, iBase>>
    /\ UNCHANGED harmVars /\ UNCHANGED valVars /\ UNCHANGED sideVars /\ UNCHANGED loadVars

\* the count of INSERT rows in the stream, the probe and the message
udf_ingest_finish ==
    /\ deploy = "udfs" /\ iPc = "finish"
    /\ iOut' = Message("LOADED", Len(StreamRows(raw, offset)))
    /\ SYSTEM_STREAM_HAS_DATA
    /\ iPc' = "finally"
    /\ UNCHANGED <<s3, loaded, deploy, raw, harmExists, harm, wh>>
    /\ UNCHANGED <<df_new, iTodo, iPos, iBase>>
    /\ UNCHANGED harmVars /\ UNCHANGED valVars /\ UNCHANGED sideVars /\ UNCHANGED loadVars

\* except Exception as row_insert_error / as load_error
udf_ingest_load_error ==
    /\ deploy = "udfs" /\ iPc \in {"rows", "finish"}
    /\ iOut' = Message("ERROR_load", 0)
    /\ iPc' = "finally"
    /\ UNCHANGED <<s3, loaded, deploy, raw, offset, harmExists, harm, wh, hasData>>
    /\ UNCHANGED <<df_new, iTodo, iPos, iBase>>
    /\ UNCHANGED harmVars /\ UNCHANGED valVars /\ UNCHANGED sideVars /\ UNCHANGED loadVars

\* finally: the scale-down and its own try/except
udf_ingest_finally ==
    /\ deploy = "udfs" /\ iPc = "finally"
    /\ wh' \in {"XSMALL", wh}
    /\ IngestReturn(iOut)
    /\ UNCHANGED <<s3, loaded, deploy, raw, offset, harmExists, harm, hasData>>
    /\ UNCHANGED harmVars /\ UNCHANGED valVars /\ UNCHANGED sideVars /\ UNCHANGED loadVars

----------------------------------------------------------------------------
(* The analytics functions: daily_changes, weekly_changes, co2_volatility *)

Abs(x) == IF x < 0 THEN -x ELSE x

RECURSIVE Gcd(_, _)
Gcd(a, b) == IF b = 0 THEN a ELSE Gcd(b, a % b)

\* A value handed to or returned by a function: None, a number (the fraction
\* n/d in lowest terms, d > 0), a string that spells a number ("100"), another
\* string ("abc"), another object ({}).
None == [t |-> "none", n |-> 0, d |-> 1]

Frac(n, d) ==
    LET g == Gcd(Abs(n), Abs(d))
        s == IF d < 0 THEN -1 ELSE 1
    IN [t |-> "num", n |-> (s * n) \div g, d |-> (s * d) \div g]

Lit(k) == Frac(k, 1)

NumStr(k) == [t |-> "numstr", n |-> k, d |-> 1]

Text == [t |-> "str", n |-> 0, d |-> 1]

Object == [t |-> "object", n |-> 0, d |-> 1]

\* an exception that leaves the function
Raised == [t |-> "raise", n |-> 0, d |-> 1]

Add(a, b) == Frac(a.n * b.d + b.n * a.d, a.d * b.d)

Sub(a, b) == Frac(a.n * b.d - b.n * a.d, a.d * b.d)

Mul(a, b) == Frac(a.n * b.n, a.d * b.d)

Div(a, b) == Frac(a.n * b.d, a.d * b.n)

AbsF(a) == Frac(Abs(a.n), a.d)

\* float(x) returns for a number and for a string that spells one; it raises
\* TypeError or ValueError for the rest
Convertible(x) == x.t \in {"num", "numstr"}

float(x) == Frac(x.n, x.d)

\* a percent change that divides without looking at the divisor
co2_percent_change_unguarded(previous_value, current_value) ==
    IF previous_value.t = "none" \/ current_value.t = "none" THEN Lit(0)
    ELSE IF ~Convertible(previous_value) \/ ~Convertible(current_value) THEN Lit(0)
    ELSE LET prev == float(previous_value)
             curr == float(current_value)
         IN IF prev.n = 0 THEN Raised
            ELSE Mul(Div(Sub(curr, prev), prev), Lit(100))

\* a percent change that forgets the subtraction
co2_percent_change_ratio(previous_value, current_value) ==
    IF previous_value.t = "none" \/ current_value.t = "none" THEN Lit(0)
    ELSE IF ~Convertible(previous_value) \/ ~Convertible(current_value) THEN Lit(0)
    ELSE LET prev == float(previous_value)
             curr == float(current_value)
         IN IF prev.n = 0 THEN Lit(0)
            ELSE Mul(Div(curr, prev), Lit(100))

co2_percent_change(previous_value, current_value) ==
    IF previous_value.t = "none" \/ current_value.t = "none" THEN Lit(0)
    ELSE IF ~Convertible(previous_value) \/ ~Convertible(current_value) THEN Lit(0)
    ELSE LET prev == float(previous_value)
             curr == float(current_value)
         IN IF prev.n = 0 THEN Lit(0)
            ELSE Mul(Div(Sub(curr, prev), prev), Lit(100))

co2_weekly_percent_change(previous_week_value, current_value) ==
    IF previous_week_value.t = "none" \/ current_value.t = "none" THEN Lit(0)
    ELSE IF ~Convertible(previous_week_value) \/ ~Convertible(current_value) THEN Lit(0)
    ELSE LET prev == float(previous_week_value)
             curr == float(current_value)
         IN IF prev.n = 0 THEN Lit(0)
            ELSE Mul(Div(Sub(curr, prev), prev), Lit(100))

\* round(x, ndigits) of Python: to the nearest, a tie to the even neighbour
round(x, ndigits) ==
    LET whole == x.n \div x.d
        part == (x.n % x.d) * 10 ^ ndigits
        q == whole * 10 ^ ndigits + part \div x.d
        r == part % x.d
        up == 2 * r > x.d \/ (2 * r = x.d /\ q % 2 = 1)
    IN Frac(IF up THEN q + 1 ELSE q, 10 ^ ndigits)

\* a volatility that answers 0.0 where it has no two positive values
calculate_co2_volatility_zero(current_value, previous_value) ==
    IF current_value.t = "none" \/ previous_value.t = "none" THEN Lit(0)
    ELSE IF current_value.t # "num" \/ previous_value.t # "num" THEN Lit(0)
    ELSE IF current_value.n <= 0 \/ previous_value.n <= 0 THEN Lit(0)
    ELSE LET average == Div(Add(current_value, previous_value), Lit(2))
         IN IF average.n = 0 THEN Lit(0)
            ELSE round(Mul(Div(AbsF(Sub(current_value, previous_value)), average), Lit(100)), 4)

\* the comparison of a string or another object with 0 raises TypeError,
\* which the except clause turns into None
calculate_co2_volatility(current_value, previous_value) ==
    IF current_value.t = "none" \/ previous_value.t = "none" THEN None
    ELSE IF current_value.t # "num" \/ previous_value.t # "num" THEN None
    ELSE IF current_value.n <= 0 \/ previous_value.n <= 0 THEN None
    ELSE LET average == Div(Add(current_value, previous_value), Lit(2))
         IN IF average.n = 0 THEN None
            ELSE round(Mul(Div(AbsF(Sub(current_value, previous_value)), average), Lit(100)), 4)

\* the arguments tried
UdfValues ==
    { None, Text, Object, NumStr(100), NumStr(110),
      Lit(-10), Lit(-1), Lit(0), Lit(1), Lit(100), Lit(110), Lit(400), Lit(410),
      Frac(41850, 100), Frac(41865, 100) }

NotCalled == [t |-> "pending", n |-> 0, d |-> 1]

NoCalls ==
    [daily |-> NotCalled, weekly |-> NotCalled, volatility |-> NotCalled,
     daily_swapped |-> NotCalled, volatility_swapped |-> NotCalled]

NoArgs == <<None, None>>

\* main(previous_value, current_value) of daily_changes
call_co2_percent_change ==
    /\ uOut.daily = NotCalled
    /\ uOut' = [uOut EXCEPT !.daily = co2_percent_change(uArgs[1], uArgs[2])]
    /\ UNCHANGED <<uArgs>>
    /\ UNCHANGED pipeVars /\ UNCHANGED valVars /\ UNCHANGED anaVars /\ UNCHANGED refreshVars

\* main(previous_week_value, current_value) of weekly_changes
call_co2_weekly_percent_change ==
    /\ uOut.weekly = NotCalled
    /\ uOut' = [uOut EXCEPT !.weekly = co2_weekly_percent_change(uArgs[1], uArgs[2])]
    /\ UNCHANGED <<uArgs>>
    /\ UNCHANGED pipeVars /\ UNCHANGED valVars /\ UNCHANGED anaVars /\ UNCHANGED refreshVars

\* main(current_value, previous_value) of co2_volatility
call_calculate_co2_volatility ==
    /\ uOut.volatility = NotCalled
    /\ uOut' = [uOut EXCEPT !.volatility = calculate_co2_volatility(uArgs[1], uArgs[2])]
    /\ UNCHANGED <<uArgs>>
    /\ UNCHANGED pipeVars /\ UNCHANGED valVars /\ UNCHANGED anaVars /\ UNCHANGED refreshVars

\* the same two values handed over in the other order
call_co2_percent_change_swapped ==
    /\ uOut.daily_swapped = NotCalled
    /\ uOut' = [uOut EXCEPT !.daily_swapped = co2_percent_change(uArgs[2], uArgs[1])]
    /\ UNCHANGED <<uArgs>>
    /\ UNCHANGED pipeVars /\ UNCHANGED valVars /\ UNCHANGED anaVars /\ UNCHANGED refreshVars

call_calculate_co2_volatility_swapped ==
    /\ uOut.volatility_swapped = NotCalled
    /\ uOut' = [uOut EXCEPT !.volatility_swapped = calculate_co2_volatility(uArgs[2], uArgs[1])]
    /\ UNCHANGED <<uArgs>>
    /\ UNCHANGED pipeVars /\ UNCHANGED valVars /\ UNCHANGED anaVars /\ UNCHANGED refreshVars

\* no function called, no analytics run, no refresh of the stream
SideIdle ==
    /\ uArgs = NoArgs /\ uOut = NoCalls
    /\ aPc = "idle" /\ minmax = FALSE /\ daily = <<>> /\ weekly = <<>> /\ aOut = "NONE"
    /\ deleted = {} /\ rPc = "idle" /\ rOut = "NONE"

----------------------------------------------------------------------------
(* Analytics: create_analytics_tables of co2_analytical_sp, both deployments *)

\* ROUND(x, k) of the warehouse: NULL for NULL, else to the nearest, a tie
\* away from zero
sql_round(x, k) ==
    IF x.t = "none" THEN None
    ELSE LET a == Abs(x.n)
             part == (a % x.d) * 10 ^ k
             q == (a \div x.d) * 10 ^ k + part \div x.d
             m == IF 2 * (part % x.d) >= x.d THEN q + 1 ELSE q
         IN Frac(IF x.n < 0 THEN -m ELSE m, 10 ^ k)

\* days since 1970-01-01 of a date yyyymmdd
days_from_civil(date) ==
    LET m == (date \div 100) % 100
        d == date % 100
        y == IF m <= 2 THEN date \div 10000 - 1 ELSE date \div 10000
        era == y \div 400
        yoe == y - era * 400
        doy == (153 * (IF m > 2 THEN m - 3 ELSE m + 9) + 2) \div 5 + d - 1
        doe == yoe * 365 + yoe \div 4 - yoe \div 100 + doy
    IN era * 146097 + doe - 719468

\* DATE_TRUNC('WEEK', DATE): the Monday of the date's week, as a day number
date_trunc_week(date) ==
    LET days == days_from_civil(date) IN days - ((days + 3) % 7)

\* ORDER BY DATE
order_by_date(h) ==
    LET Rank(i) == Cardinality({ j \in DOMAIN h :
                       h[j].date < h[i].date \/ (h[j].date = h[i].date /\ j < i) }) + 1
    IN [k \in DOMAIN h |-> h[CHOOSE i \in DOMAIN h : Rank(i) = k]]

\* LAG(CO2_PPM) OVER (ORDER BY DATE) for row i of the ordered rows
lag(s, i) == IF i = 1 THEN None ELSE Lit(s[i - 1].ppm)

RECURSIVE SumF(_)
SumF(vals) == IF vals = <<>> THEN Lit(0) ELSE Add(Head(vals), SumF(Tail(vals)))

\* AVG: NULLs are left out; NULL when nothing is left
avg(vals) ==
    LET nums == SelectSeq(vals, LAMBDA v : v.t = "num")
    IN IF nums = <<>> THEN None ELSE Div(SumF(nums), Lit(Len(nums)))

\* a daily row; prev is the LAG value handed to the functions (a column,
\* PREV_DAY_CO2, in udfs_and_spoc only)
DailyRow(date, ppm, prev, change, volatility) ==
    [date |-> date, ppm |-> ppm, prev |-> prev, change |-> change, volatility |-> volatility]

\* daily_sql of scripts/: the functions are called with (CO2_PPM, LAG(CO2_PPM))
daily_sql(h) ==
    LET s == order_by_date(h)
    IN [i \in DOMAIN s |->
           DailyRow(s[i].date, sql_round(Lit(s[i].ppm), 3), lag(s, i),
                    sql_round(co2_percent_change(Lit(s[i].ppm), lag(s, i)), 3),
                    sql_round(calculate_co2_volatility(Lit(s[i].ppm), lag(s, i)), 3))]

\* result_df of process_daily_metrics in udfs_and_spoc/
daily_result_df(h) ==
    LET s == order_by_date(h)
    IN [i \in DOMAIN s |->
           DailyRow(s[i].date, Lit(s[i].ppm), lag(s, i),
                    co2_percent_change(lag(s, i), Lit(s[i].ppm)),
                    calculate_co2_volatility(Lit(s[i].ppm), lag(s, i)))]

\* the weeks of the table in ascending order, and the rows of one week
week_starts(h) == SortedSeq({ date_trunc_week(h[i].date) : i \in DOMAIN h })

week_rows(s, w) == SelectSeq(s, LAMBDA r : date_trunc_week(r.date) = w)

WeeklyRow(w, mean, first, last, change, volatility) ==
    [week_start |-> w, avg |-> mean, first |-> first, last |-> last,
     change |-> change, volatility |-> volatility]

\* weekly_base: LAG(CO2_PPM) OVER (PARTITION BY week ORDER BY DATE)
week_volatilities(p) ==
    [i \in DOMAIN p |-> calculate_co2_volatility(Lit(p[i].ppm), lag(p, i))]

\* weekly_rollup: MAX(CASE WHEN rn = 1 THEN CO2_PPM END), rn counted from the
\* latest date of the week
LAST_CO2(p) == Lit(p[Len(p)].ppm)

\* weekly_sql of scripts/: the percent change is called with
\* (LAST_CO2, LAG(LAST_CO2)), the volatility is the mean of the week's
\* day-to-day volatilities
weekly_sql(h) ==
    LET s == order_by_date(h)
        ws == week_starts(h)
    IN [k \in DOMAIN ws |->
           LET p == week_rows(s, ws[k])
               before == IF k = 1 THEN None ELSE LAST_CO2(week_rows(s, ws[k - 1]))
           IN WeeklyRow(ws[k], None, None, sql_round(LAST_CO2(p), 3),
                        sql_round(co2_weekly_percent_change(LAST_CO2(p), before), 3),
                        sql_round(avg(week_volatilities(p)), 3))]

MinPpm(p) == CHOOSE x \in { p[i].ppm : i \in DOMAIN p } : \A j \in DOMAIN p : x <= p[j].ppm

MaxPpm(p) == CHOOSE x \in { p[i].ppm : i \in DOMAIN p } : \A j \in DOMAIN p : x >= p[j].ppm

\* result_df of process_weekly_metrics in udfs_and_spoc/: WEEK_START_CO2 is
\* the minimum and WEEK_END_CO2 the maximum of the week
weekly_result_df(h) ==
    LET s == order_by_date(h)
        ws == week_starts(h)
    IN [k \in DOMAIN ws |->
           LET p == week_rows(s, ws[k])
           IN WeeklyRow(ws[k], avg([i \in DOMAIN p |-> Lit(p[i].ppm)]),
                        Lit(MinPpm(p)), Lit(MaxPpm(p)),
                        co2_percent_change(Lit(MinPpm(p)), Lit(MaxPpm(p))),
                        calculate_co2_volatility(Lit(MaxPpm(p)), Lit(MinPpm(p))))]

\* target_df.merge(result_df, target.KEY == result.KEY, [update, insert])
merge_on(target, src, key) ==
    LET upd == [i \in DOMAIN target |->
                   IF \E j \in DOMAIN src : src[j][key] = target[i][key]
                   THEN src[CHOOSE j \in DOMAIN src : src[j][key] = target[i][key]]
                   ELSE target[i]]
    IN upd \o SelectSeq(src, LAMBDA r : \A i \in DOMAIN target : target[i][key] # r[key])

AnaFrame ==
    /\ UNCHANGED <<s3, loaded, deploy, raw, offset, harmExists, harm, hasData>>
    /\ UNCHANGED ingestVars /\ UNCHANGED harmVars /\ UNCHANGED valVars /\ UNCHANGED loadVars
    /\ UNCHANGED udfVars /\ UNCHANGED refreshVars /\ UNCHANGED <<minmax>>

\* scripts/: ALTER WAREHOUSE ... XLARGE
ana_scale_up ==
    /\ deploy = "scripts" /\ aPc = "idle"
    /\ wh' = "XLARGE"
    /\ aPc' = "daily"
    /\ UNCHANGED <<daily, weekly, aOut>>
    /\ AnaFrame

\* CREATE OR REPLACE TABLE ANALYTICS_CO2.DAILY_ANALYTICS AS ...
ana_daily ==
    /\ deploy = "scripts" /\ aPc = "daily"
    /\ daily' = daily_sql(harm)
    /\ aPc' = "weekly"
    /\ UNCHANGED <<wh, weekly, aOut>>
    /\ AnaFrame

\* CREATE OR REPLACE TABLE ANALYTICS_CO2.WEEKLY_ANALYTICS AS ...
ana_weekly ==
    /\ deploy = "scripts" /\ aPc = "weekly"
    /\ weekly' = weekly_sql(harm)
    /\ aPc' = "scale_down"
    /\ UNCHANGED <<wh, daily, aOut>>
    /\ AnaFrame

\* ALTER WAREHOUSE ... XSMALL and the return
ana_scale_down ==
    /\ deploy = "scripts" /\ aPc = "scale_down"
    /\ wh' = "XSMALL"
    /\ aOut' = "created successfully"
    /\ aPc' = "returned"
    /\ UNCHANGED <<daily, weekly>>
    /\ AnaFrame

\* a statement of scripts/ raises: nothing catches it
ana_raise ==
    /\ deploy = "scripts" /\ aPc \in {"idle", "daily", "weekly", "scale_down"}
    /\ aOut' = "raised"
    /\ aPc' = "returned"
    /\ UNCHANGED <<wh, daily, weekly>>
    /\ AnaFrame

\* udfs_and_spoc/: the tables are created when missing; process_daily_metrics
\* scales the warehouse up
udf_ana_daily_scale_up ==
    /\ deploy = "udfs" /\ aPc = "idle"
    /\ wh' = "LARGE"
    /\ aPc' = "daily"
    /\ UNCHANGED <<daily, weekly, aOut>>
    /\ AnaFrame

\* process_daily_metrics: when _CO2_MINMAX cannot be read, min_co2 is unbound
\* where result_df is built and the function raises before the merge
udf_ana_daily ==
    /\ deploy = "udfs" /\ aPc = "daily"
    /\ IF minmax
       THEN /\ daily' = merge_on(daily, daily_result_df(harm), "date")
            /\ aOut' = aOut
       ELSE /\ daily' = daily
            /\ aOut' = "Error"
    /\ aPc' = "daily_finally"
    /\ UNCHANGED <<wh, weekly>>
    /\ AnaFrame

\* finally: the scale-down; an exception goes on to create_analytics_tables,
\* which returns "Error: ..." without calling process_weekly_metrics
udf_ana_daily_finally ==
    /\ deploy = "udfs" /\ aPc = "daily_finally"
    /\ wh' = "XSMALL"
    /\ aPc' = IF aOut = "Error" THEN "returned" ELSE "weekly_scale_up"
    /\ UNCHANGED <<daily, weekly, aOut>>
    /\ AnaFrame

udf_ana_weekly_scale_up ==
    /\ deploy = "udfs" /\ aPc = "weekly_scale_up"
    /\ wh' = "LARGE"
    /\ aPc' = "weekly"
    /\ UNCHANGED <<daily, weekly, aOut>>
    /\ AnaFrame

\* process_weekly_metrics: the minimum and maximum are read from the
\* harmonized table when _CO2_MINMAX cannot be read
udf_ana_weekly ==
    /\ deploy = "udfs" /\ aPc = "weekly"
    /\ weekly' = merge_on(weekly, weekly_result_df(harm), "week_start")
    /\ aPc' = "weekly_finally"
    /\ UNCHANGED <<wh, daily, aOut>>
    /\ AnaFrame

udf_ana_weekly_finally ==
    /\ deploy = "udfs" /\ aPc = "weekly_finally"
    /\ wh' = "XSMALL"
    /\ aOut' = "successfully processed"
    /\ aPc' = "returned"
    /\ UNCHANGED <<daily, weekly>>
    /\ AnaFrame

\* a statement of udfs_and_spoc/ raises: the finally of the function scales
\* down and create_analytics_tables returns "Error: ..."
udf_ana_raise ==
    /\ deploy = "udfs" /\ aPc \in {"idle", "daily", "weekly_scale_up", "weekly"}
    /\ aOut' = "Error"
    /\ wh' = IF aPc = "idle" THEN wh ELSE "XSMALL"
    /\ aPc' = "returned"
    /\ UNCHANGED <<daily, weekly>>
    /\ AnaFrame

\* the caller has the message
ana_return ==
    /\ aPc = "returned"
    /\ aPc' = "idle" /\ aOut' = "NONE"
    /\ UNCHANGED <<wh, daily, weekly>>
    /\ AnaFrame

----------------------------------------------------------------------------
(* Initial state: tables and stream created, nothing loaded, no run started *)

Init ==
    /\ deploy \in {"scripts", "udfs"}
    /\ raw = <<>>
    /\ offset = 0
    /\ harmExists = FALSE
    /\ harm = <<>>
    /\ wh = "XSMALL"
    /\ s3 = NoBlobs /\ loaded = {} /\ noaa = <<>> /\ runs = NoRuns
    /\ SideIdle
    /\ hasData = FALSE
    /\ iPc = "idle" /\ df_new = <<>> /\ iTodo = <<>> /\ iPos = 0 /\ iBase = 0
    /\ iOut = Message("NONE", 0)
    /\ hPc = "idle" /\ hRead = <<>> /\ mergeResult = NoMerge /\ hCount = 0
    /\ hRes = Running
    /\ hHarm0 = <<>> /\ hOff0 = 0 /\ hOut = NoMessage
    /\ vPc = "off" /\ vIn = <<>> /\ vRows = <<>>

----------------------------------------------------------------------------
(* The pipeline *)

Next ==
    \/ fetch_latest_date_error \/ fetch_status_error \/ fetch_begin
    \/ ingest_upload \/ ingest_scale_up \/ ingest_copy \/ ingest_scale_down
    \/ ingest_finish \/ ingest_except
    \/ udf_ingest_scale_up \/ udf_ingest_stage \/ udf_ingest_stage_error
    \/ udf_ingest_batch \/ udf_ingest_batch_error
    \/ udf_ingest_row \/ udf_ingest_row_error
    \/ udf_ingest_finish \/ udf_ingest_load_error \/ udf_ingest_finally
    \/ ingest_main_return \/ main_return
    \/ merge_begin \/ merge_statement \/ merge_count_invalid \/ merge_return \/ merge_except
    \/ udf_merge_begin \/ udf_merge_scale_up \/ udf_merge_stream_count
    \/ udf_merge_statement \/ udf_merge_except \/ udf_merge_finally \/ udf_main_error
    \/ check_stream_without_consuming

Spec == Init /\ [][Next]_vars

----------------------------------------------------------------------------
(* Properties of the pipeline *)

Count(seq, x) == Cardinality({ i \in DOMAIN seq : seq[i] = x })

\* the five columns of a record of df_new, as the raw table stores them
RawColumns(r) == [year |-> r.year, month |-> r.month, day |-> r.day, ppm |-> r.ppm]

\* the raw rows appended since the ingest run started
Appended == SubSeq(raw, iBase + 1, Len(raw))

NewMeasurements == [i \in DOMAIN df_new |-> RawColumns(df_new[i])]

\* C1: during an ingest run no new measurement is in the raw table more often
\* than it is among the new records, and when the run returns its message of
\* a completed load every new measurement is there exactly as often.
C1_AppendedExactlyOnce ==
    /\ \A i \in DOMAIN NewMeasurements :
         Count(Appended, NewMeasurements[i]) <= Count(NewMeasurements, NewMeasurements[i])
    /\ (iPc = "returned" /\ iOut.kind = "LOADED") =>
         \A i \in DOMAIN NewMeasurements :
            Count(Appended, NewMeasurements[i]) = Count(NewMeasurements, NewMeasurements[i])

\* C2: the harmonized table holds at most one row per date.
C2_OneRowPerDate ==
    \A i, j \in DOMAIN harm : harm[i].date = harm[j].date => i = j

Failed == hPc = "returned" /\ hRes.error

\* C4: when merge_raw_into_harmonized has returned a failure, the harmonized
\* table is as it was when the run started.
C4_FailureLeavesTable ==
    Failed => harm = hHarm0

\* C5: when merge_raw_into_harmonized has returned a failure, the stream offset
\* is where it was when the run started.
C5_FailureLeavesOffset ==
    Failed => offset = hOff0

\* C6: the rows in the stream read of a run that returned a failure are still
\* pending in the stream, for the next run to read, and the rows in the read of
\* a run that returned success are behind the offset, out of the next read.
C6_ReadByOneSuccessfulRun ==
    hPc = "returned" =>
        \A id \in ReadIds(hRead) :
            IF hRes.error THEN id > offset ELSE id <= offset

\* the steps that call SYSTEM$STREAM_HAS_DATA
Probe ==
    \/ check_stream_without_consuming
    \/ ingest_finish
    \/ udf_ingest_finish
    \/ merge_count_invalid

checked_source(events) ==
    validate_data_consistency(validate_timestamps(source_with_date(events)))

\* rows i and j of the checked dataframe: same day, different concentration,
\* both valid so far
DuplicatePair(checked, i, j) ==
    /\ i # j
    /\ checked[i].date = checked[j].date
    /\ checked[i].ppm # checked[j].ppm
    /\ checked[i].status = "VALID" /\ checked[j].status = "VALID"

\* C8: when the merge statement of scripts/co2_harmonized_sp reads two rows of
\* the same day with different concentrations, both valid by date and value,
\* both are tagged DUPLICATE_DATE and the harmonized rows of that date, if
\* any, are left as they were.
C8_DuplicateDatesNotWritten ==
    [][merge_statement =>
        LET events == StreamRows(raw, offset)
            checked == checked_source(events)
            tagged == validated_source(events)
        IN \A i, j \in DOMAIN checked :
              DuplicatePair(checked, i, j) =>
                 /\ tagged[i].status = "DUPLICATE_DATE"
                 /\ tagged[j].status = "DUPLICATE_DATE"
                 /\ \A k \in DOMAIN harm' :
                       harm'[k].date = checked[i].date =>
                          (k \in DOMAIN harm /\ harm[k] = harm'[k])
                 /\ \A k \in DOMAIN harm' :
                       harm'[k].rid \notin { checked[i].rid, checked[j].rid }]_vars

\* the merge statement has committed on a read with such a pair
C8_Witness ==
    /\ deploy = "scripts" /\ hPc = "count_invalid"
    /\ \E i, j \in DOMAIN checked_source(hRead) :
          DuplicatePair(checked_source(hRead), i, j)
    /\ offset = Len(raw)

\* a run of scripts/co2_harmonized_sp has returned its counts
Reported == deploy = "scripts" /\ hPc = "returned" /\ ~hRes.error

\* C11: when a run of scripts/co2_harmonized_sp returns its counts,
\* valid_records_processed + invalid_records_skipped is the number of
\* INSERT/UPDATE events its merge statement read from the stream.
C11_EveryEventCounted ==
    Reported =>
        hRes.valid_records_processed + hRes.invalid_records_skipped
            = Len(source_with_date(hRead))

\* C12: when a run of scripts/co2_harmonized_sp returns its counts,
\* rows_inserted is the number of rows its merge statement inserted,
\* rows_updated the number it updated, and valid_records_processed their sum.
C12_CountsDescribeMerge ==
    Reported =>
        /\ hRes.rows_inserted = mergeResult.rows_inserted
        /\ hRes.rows_updated = mergeResult.rows_updated
        /\ hRes.valid_records_processed = hRes.rows_inserted + hRes.rows_updated

\* C13: when main returns for a run whose merge reported an error, its
\* message is an error message that carries the cause, not the message of a
\* completed merge.
C13_MainReportsFailure ==
    Failed => (hOut.kind # "COMPLETE" /\ hOut.cause)

\* the positions of an ingest run at which its scale-up statement has run
\* and its scale-down statement has not been issued
IngestScaledUp ==
    \/ deploy = "scripts" /\ iPc = "copy"
    \/ deploy = "udfs" /\ iPc \in {"stage", "batch", "rows", "finish"}

\* the same for the merge of udfs_and_spoc/co2_harmonized_sp (the merge of
\* scripts/ never scales)
MergeScaledUp == deploy = "udfs" /\ hPc \in {"stream_count", "merge"}

\* C15: a stage that has run its scale-up statement does not return before
\* it has issued its scale-down statement, whatever statement raises: no
\* step takes a run from a position after the scale-up and before the
\* scale-down to its return.
C15_ScaleDownBeforeReturn ==
    [][/\ IngestScaledUp => iPc' # "returned"
       /\ MergeScaledUp => hPc' # "returned"]_vars

\* C16: a scale-up or scale-down statement that raises does not fail the
\* load or the merge around it: no step taken at a scaling statement ends the
\* ingest run, and none gives the merge an error result.
C16_ScalingFailureNotFatal ==
    [][/\ iPc \in {"scale_up", "scale_down"} => iPc' # "returned"
       /\ hPc = "scale_up" => ~hRes'.error]_vars

\* the latest raw date as the run found it, and the rows a step appends
StartLatest == latest_date(SubSeq(raw, 1, iBase))

StepAppended == SubSeq(raw', Len(raw) + 1, Len(raw'))

\* every row a step appends to the raw table is a record of df_new dated
\* after the latest raw date the run started with
AppendsOnlyNew ==
    /\ Len(raw') >= Len(raw) /\ SubSeq(raw', 1, Len(raw)) = raw
    /\ \A i \in DOMAIN StepAppended :
          /\ RowDate(StepAppended[i]) > StartLatest
          /\ \E k \in DOMAIN df_new : StepAppended[i] = RawColumns(df_new[k])

\* the run got its response and the filter left no record
FilterLeftNone ==
    /\ IngestIdle /\ iPc' # "idle" /\ df_new' = <<>>
    /\ iOut'.kind \notin {"ERROR_latest_date", "ERROR_fetch_status"}

\* C17: an ingest run appends to the raw table only records of the response
\* dated after the latest raw date at its start (all records of the current
\* year on an empty table), and a run whose filter leaves no record returns
\* 'No new CO2 data to load' at once: no upload, no load, no scaling.
C17_AppendsOnlyLaterRecords ==
    [][/\ AppendsOnlyNew
       /\ FilterLeftNone =>
             /\ iOut'.kind = "NO_NEW_DATA" /\ iPc' = "returned"
             /\ raw' = raw /\ s3' = s3 /\ wh' = wh]_vars

\* C18: a run whose latest-date query raises, or whose fetch gets a status
\* other than 200, returns in that step with the error message of that cause
\* (not 'No new CO2 data', not a completed load), and the step leaves the raw
\* table, the stream, the bucket and the warehouse as they were.
C18_FetchFailureReturnsError ==
    [][(fetch_latest_date_error \/ fetch_status_error) =>
          /\ iPc' = "returned"
          /\ iOut'.kind \in {"ERROR_latest_date", "ERROR_fetch_status"}
          /\ raw' = raw /\ offset' = offset /\ s3' = s3 /\ wh' = wh]_vars

\* a run on a loaded raw table has returned the error of a failed fetch or
\* of a failed latest-date query
C18_Witness ==
    /\ iPc = "returned"
    /\ iOut.kind \in {"ERROR_latest_date", "ERROR_fetch_status"}
    /\ raw # <<>>

\* C19: an upload to {prefix}/{year}/co2_daily_mlo.csv leaves there the
\* whole year: every record of the year that the raw table holds from the
\* loads before is among the rows of the new object, which never holds the
\* new records alone.
C19_UploadHoldsWholeYear ==
    [][\A y \in PartitionYears :
          s3'[y] # s3[y] =>
             \A i \in DOMAIN raw :
                raw[i].year = y => \E k \in DOMAIN s3'[y] : s3'[y][k] = raw[i]]_vars

\* C29: the count in "Successfully loaded N new CO2 records" is the number of
\* rows the run appended to the raw table, also when rows of earlier runs are
\* still unconsumed in the stream.
C29_LoadedCountIsAppended ==
    (iPc = "returned" /\ iOut.kind = "LOADED") => iOut.rows = Len(raw) - iBase

----------------------------------------------------------------------------
(* Harmonization run again on the same stream contents: the raw table is    *)
(* loaded and stays as it is, the stream is created over it, and every run *)
(* that follows a new creation of the stream reads the same rows           *)

RetryDays == { <<1950, 1, 1>>, <<2024, 1, 1>>, <<2024, 2, 1>>, <<2025, 1, 1>> }
RetryPpm == { 100, 400, 410 }
RetryRows == { Measurement(dy, p) : dy \in RetryDays, p \in RetryPpm }

InitRetry ==
    /\ deploy \in {"scripts", "udfs"}
    /\ raw \in SeqUpTo(RetryRows, MaxBatch)
    /\ offset = 0
    /\ harmExists = FALSE
    /\ harm = <<>>
    /\ wh = "XSMALL"
    /\ s3 = NoBlobs /\ loaded = {} /\ noaa = <<>> /\ runs = NoRuns
    /\ SideIdle
    /\ hasData = FALSE
    /\ iPc = "idle" /\ df_new = <<>> /\ iTodo = <<>> /\ iPos = 0 /\ iBase = 0
    /\ iOut = Message("NONE", 0)
    /\ hPc = "idle" /\ hRead = <<>> /\ mergeResult = NoMerge /\ hCount = 0
    /\ hRes = Running
    /\ hHarm0 = <<>> /\ hOff0 = 0 /\ hOut = NoMessage
    /\ vPc = "off" /\ vIn = <<>> /\ vRows = <<>>

NextRetry ==
    \/ merge_begin \/ merge_statement \/ merge_count_invalid \/ merge_return \/ merge_except
    \/ udf_merge_begin \/ udf_merge_scale_up \/ udf_merge_stream_count
    \/ udf_merge_statement \/ udf_merge_except \/ udf_merge_finally \/ udf_main_error
    \/ main_return
    \/ create_raw_co2_stream

SpecRetry == InitRetry /\ [][NextRetry]_vars

\* the harmonized rows as (date, concentration, site, status)
HarmonizedRecords(h) ==
    [i \in DOMAIN h |->
        [date |-> h[i].date, ppm |-> h[i].ppm, site |-> h[i].site, status |-> h[i].status]]

\* C3: a merge statement that runs on the stream contents an earlier run has
\* merged (the table holds rows already) leaves the harmonized table with the
\* same rows (date, concentration, site, status): it inserts none again.
C3_SecondRunSameTable ==
    [][((merge_statement \/ udf_merge_statement) /\ harm # <<>>) =>
          HarmonizedRecords(harm') = HarmonizedRecords(harm)]_vars

\* a run that started on a table with rows has committed its merge statement
\* on a stream read with rows, and the table is as the earlier run left it
C3_Witness ==
    /\ hPc \in { "count_invalid", "finally" }
    /\ hHarm0 # <<>> /\ hRead # <<>>
    /\ offset = Len(raw)
    /\ HarmonizedRecords(harm) = HarmonizedRecords(hHarm0)

\* the dates of the harmonized rows h
HarmDates(h) == { h[i].date : i \in DOMAIN h }

\* one merge statement took the table from h to h2 as an upsert of the
\* records V: rows stay where they are, a row is rewritten by the record of
\* its date and by nothing else, and the rows added are one per record whose
\* date the table did not hold
UpsertOf(h, h2, V) ==
    /\ Len(h2) >= Len(h)
    /\ \A i \in DOMAIN h :
          IF \E k \in DOMAIN V : V[k].date = h[i].date
          THEN \E k \in DOMAIN V :
                  V[k].date = h[i].date /\ h2[i] = columns_to_update(V[k])
          ELSE h2[i] = h[i]
    /\ \A i \in (Len(h) + 1)..Len(h2) :
          \E k \in DOMAIN V :
             V[k].date \notin HarmDates(h) /\ h2[i] = columns_to_update(V[k])
    /\ \A k \in DOMAIN V :
          V[k].date \notin HarmDates(h) =>
             Cardinality({ i \in DOMAIN h2 : h2[i].date = V[k].date }) = 1

----------------------------------------------------------------------------
(* The first load: scrape_co2data/data_extraction.py writes the upstream    *)
(* file to the bucket, one object per year, scripts/incremental_raw_co2data *)
(* copies the objects into the raw table, and the harmonization procedure   *)
(* reads the stream.  The upstream file stays the same through a behaviour. *)

\* runs of each script a behaviour holds at most
MaxRuns == 2

\* for year in range(2020, 2026)
LoadFromYear == 2020
LoadToYear == 2025

LoadYears == { y \in PartitionYears : y >= LoadFromYear /\ y <= LoadToYear }

\* df.groupby("Year"): the lines of one year
year_df(file, y) == SelectSeq(file, LAMBDA l : l.year = y)

\* the years of the file in the order of the groupby
FileYears(file) == SortedSeq({ file[i].year : i \in DOMAIN file })

\* put_object for the first n years of the file
RECURSIVE upload_years(_, _, _, _)
upload_years(store, file, ys, n) ==
    IF n = 0 THEN store
    ELSE upload_years(put_object(store, Head(ys), year_df(file, Head(ys))), file, Tail(ys), n - 1)

\* a COPY with FORCE = TRUE: the object is loaded whatever the metadata holds
copy_into_force(r, meta, store, y) ==
    [raw |-> r \o store[y], loaded |-> meta \cup { <<y, store[y]>> }]

\* COPY INTO RAW_CO2.CO2_DATA FROM @EXTERNAL.NOAA_CO2_STAGE/{year}/ with no
\* FORCE option: an object the metadata holds with the same content is
\* skipped, any other is appended whole
copy_into(r, meta, store, y) ==
    IF store[y] = <<>> \/ <<y, store[y]>> \in meta
    THEN [raw |-> r, loaded |-> meta]
    ELSE [raw |-> r \o store[y], loaded |-> meta \cup { <<y, store[y]>> }]

\* load_raw_table for the years ys in turn
RECURSIVE load_years(_, _, _, _)
load_years(r, meta, store, ys) ==
    IF ys = <<>> THEN [raw |-> r, loaded |-> meta]
    ELSE LET one == copy_into(r, meta, store, Head(ys))
         IN load_years(one.raw, one.loaded, store, Tail(ys))

\* data_extraction.py: every year of the file is uploaded whole; a put_object
\* that raises ends the script with the years before it uploaded
upload_to_s3 ==
    /\ runs.uploads < MaxRuns
    /\ \E n \in 0..Len(FileYears(noaa)) :
          /\ s3' = upload_years(s3, noaa, FileYears(noaa), n)
          /\ runs' = IF n = Len(FileYears(noaa))
                     THEN [runs EXCEPT !.uploads = @ + 1] ELSE runs
    /\ UNCHANGED <<loaded, deploy, raw, offset, harmExists, harm, wh, hasData, noaa>>
    /\ UNCHANGED ingestVars /\ UNCHANGED harmVars /\ UNCHANGED valVars /\ UNCHANGED sideVars

\* load_all_raw_tables: scale-up, load_raw_table for each year (a year whose
\* COPY raises is skipped), scale-down in the finally with its own handler
load_all_raw_tables ==
    /\ runs.loads < MaxRuns
    /\ \E ok \in SUBSET LoadYears :
          LET res == load_years(raw, loaded, s3, SortedSeq(ok))
          IN raw' = res.raw /\ loaded' = res.loaded
    /\ wh' \in {"XSMALL", "XLARGE", wh}
    /\ runs' = [runs EXCEPT !.loads = @ + 1]
    /\ UNCHANGED <<s3, deploy, offset, harmExists, harm, hasData, noaa>>
    /\ UNCHANGED ingestVars /\ UNCHANGED harmVars /\ UNCHANGED valVars /\ UNCHANGED sideVars

InitReload ==
    /\ deploy \in {"scripts", "udfs"}
    /\ raw = <<>>
    /\ offset = 0
    /\ harmExists = FALSE
    /\ harm = <<>>
    /\ wh = "XSMALL"
    /\ s3 = NoBlobs /\ loaded = {} /\ runs = NoRuns
    /\ noaa \in Responses
    /\ SideIdle
    /\ hasData = FALSE
    /\ iPc = "idle" /\ df_new = <<>> /\ iTodo = <<>> /\ iPos = 0 /\ iBase = 0
    /\ iOut = Message("NONE", 0)
    /\ hPc = "idle" /\ hRead = <<>> /\ mergeResult = NoMerge /\ hCount = 0
    /\ hRes = Running
    /\ hHarm0 = <<>> /\ hOff0 = 0 /\ hOut = NoMessage
    /\ vPc = "off" /\ vIn = <<>> /\ vRows = <<>>

NextReload ==
    \/ upload_to_s3 \/ load_all_raw_tables
    \/ merge_begin \/ merge_statement \/ merge_count_invalid \/ merge_return \/ merge_except
    \/ udf_merge_begin \/ udf_merge_scale_up \/ udf_merge_stream_count
    \/ udf_merge_statement \/ udf_merge_except \/ udf_merge_finally \/ udf_main_error
    \/ main_return

SpecReload == InitReload /\ [][NextReload]_vars

\* the raw table and the harmonized table after the file is uploaded once,
\* loaded once and harmonized once, on empty tables
OnceRaw == load_years(<<>>, {}, upload_years(NoBlobs, noaa, FileYears(noaa), Len(FileYears(noaa))),
                      SortedSeq(LoadYears)).raw

OnceHarm ==
    LET events == StreamRows(OnceRaw, 0)
        valid == valid_source(events)
        src == source_df(events)
    IN IF deploy = "scripts"
       THEN MergeRows(<<>>, [k \in DOMAIN valid |-> columns_to_update(valid[k])])
       ELSE MergeRows(<<>>, [k \in DOMAIN src |-> updates(src[k])])

\* two tables hold the same records, each as often
SameRecords(h1, h2) ==
    /\ Len(h1) = Len(h2)
    /\ \A i \in DOMAIN h1 :
          Count(HarmonizedRecords(h1), HarmonizedRecords(h1)[i])
             = Count(HarmonizedRecords(h2), HarmonizedRecords(h1)[i])

\* the whole file is in the bucket, every object of the load range is loaded,
\* and the harmonization has read the stream to its end
Settled ==
    /\ runs.uploads >= 1 /\ runs.loads >= 1
    /\ s3 = upload_years(NoBlobs, noaa, FileYears(noaa), Len(FileYears(noaa)))
    /\ \A y \in LoadYears : s3[y] # <<>> => <<y, s3[y]>> \in loaded
    /\ offset = Len(raw)
    /\ hPc = "idle"

\* C20: with the upstream file unchanged, however often the extraction script
\* and the raw load have run before the harmonization, the harmonized table
\* holds the records it holds after one upload, one load and one
\* harmonization.
C20_ReloadSameHarmonized ==
    Settled => SameRecords(harm, OnceHarm)

\* the extraction script and the raw load have each run twice on a file with
\* records, and the harmonization has merged what they left
C20_Witness ==
    /\ Settled
    /\ runs.uploads = 2 /\ runs.loads = 2
    /\ harm # <<>> /\ Len(raw) = Len(noaa)

----------------------------------------------------------------------------
(* The validation passes taken one at a time, in the order in which         *)
(* merge_raw_into_harmonized chains them on one stream read                 *)

\* the pipeline stands still during the walk
ValidatorFrame == vIn' = vIn /\ UNCHANGED pipeVars /\ UNCHANGED sideVars

\* source = validate_timestamps(session, source)
walk_timestamps ==
    /\ vPc = "read"
    /\ vRows' = validate_timestamps(vRows)
    /\ vPc' = "timestamps"
    /\ ValidatorFrame

\* source = validate_data_consistency(session, source)
walk_consistency ==
    /\ vPc = "timestamps"
    /\ vRows' = validate_data_consistency(vRows)
    /\ vPc' = "consistency"
    /\ ValidatorFrame

\* source = check_duplicates(session, source)
walk_duplicates ==
    /\ vPc = "consistency"
    /\ vRows' = check_duplicates(vRows)
    /\ vPc' = "duplicates"
    /\ ValidatorFrame

\* valid_source = source.filter(VALIDATION_STATUS == "VALID")
walk_filter ==
    /\ vPc = "duplicates"
    /\ vRows' = filter_valid(vRows)
    /\ vPc' = "valid"
    /\ ValidatorFrame

\* a stream read of up to MaxBatch raw rows, selected with its CO2_DATE column
InitValidator ==
    /\ deploy = "scripts"
    /\ raw = <<>>
    /\ offset = 0
    /\ harmExists = FALSE
    /\ harm = <<>>
    /\ wh = "XSMALL"
    /\ s3 = NoBlobs /\ loaded = {} /\ noaa = <<>> /\ runs = NoRuns
    /\ SideIdle
    /\ hasData = FALSE
    /\ iPc = "idle" /\ df_new = <<>> /\ iTodo = <<>> /\ iPos = 0 /\ iBase = 0
    /\ iOut = Message("NONE", 0)
    /\ hPc = "idle" /\ hRead = <<>> /\ mergeResult = NoMerge /\ hCount = 0
    /\ hRes = Running
    /\ hHarm0 = <<>> /\ hOff0 = 0 /\ hOut = NoMessage
    /\ vIn \in { StreamRows(b, 0) : b \in SeqUpTo(ValRows, MaxBatch) }
    /\ vRows = source_with_date(vIn)
    /\ vPc = "read"

NextValidator == walk_timestamps \/ walk_consistency \/ walk_duplicates \/ walk_filter

SpecValidator == InitValidator /\ [][NextValidator]_vars

----------------------------------------------------------------------------
(* Properties of the validation passes *)

Statuses == { "VALID", "INVALID_DATE", "INVALID_CO2_VALUE", "DUPLICATE_DATE" }

OutOfRange(r) == r.ppm < PpmLow \/ r.ppm > PpmHigh

\* C9: once the three passes have run, every record of the stream read that is
\* dated in the future and has an out-of-range concentration is in the
\* dataframe with status INVALID_DATE.
C9_FutureOutOfRangeIsInvalidDate ==
    vPc = "duplicates" =>
        \A i \in DOMAIN vIn :
            (~NotFuture(vIn[i]) /\ OutOfRange(vIn[i])) =>
                \E j \in DOMAIN vRows :
                    vRows[j].rid = vIn[i].rid /\ vRows[j].status = "INVALID_DATE"

\* C10: the date pass gives every record it returns one status, VALID or
\* INVALID_DATE; the value pass and the duplicate pass return the same records
\* in the same order, each with one status of the four, and a status they
\* change was VALID before and is invalid after.
C10_PassesOnlyDowngrade ==
    [][/\ walk_timestamps =>
            \A i \in DOMAIN vRows' : vRows'[i].status \in { "VALID", "INVALID_DATE" }
       /\ (walk_consistency \/ walk_duplicates) =>
            /\ Len(vRows') = Len(vRows)
            /\ \A i \in DOMAIN vRows :
                 /\ vRows'[i].rid = vRows[i].rid
                 /\ vRows'[i].status \in Statuses
                 /\ vRows'[i].status # vRows[i].status =>
                      (vRows[i].status = "VALID" /\ vRows'[i].status # "VALID")]_vars

\* an INVALID_DATE record with an out-of-range concentration has gone through
\* the value pass and the duplicate pass, beside a record those passes downgraded
C10_Witness ==
    /\ vPc = "duplicates"
    /\ \E i \in DOMAIN vRows : vRows[i].status = "INVALID_DATE" /\ OutOfRange(vRows[i])
    /\ \E i \in DOMAIN vRows : vRows[i].status \in { "INVALID_CO2_VALUE", "DUPLICATE_DATE" }

TooEarlyOrFuture(r) == ~NotFuture(r) \/ r.year < FloorYear

StatusOf(rows, rid) == { rows[j].status : j \in { k \in DOMAIN rows : rows[k].rid = rid } }

\* C26: the date pass rejects a record exactly when its date is after the
\* processing date or its year is before the floor year; every other record,
\* whatever its month and day, is VALID after the pass.  (A record the pass
\* leaves out of its result counts as rejected, like one it tags
\* INVALID_DATE.)
C26_DatePassRejectsExactly ==
    vPc = "timestamps" =>
        \A i \in DOMAIN vIn :
            IF TooEarlyOrFuture(vIn[i])
            THEN StatusOf(vRows, vIn[i].rid) \subseteq {"INVALID_DATE"}
            ELSE StatusOf(vRows, vIn[i].rid) = {"VALID"}

SameDay(a, b) == a.year = b.year /\ a.month = b.month /\ a.day = b.day

\* C27: the duplicate pass groups only the records that are still VALID: a
\* VALID record whose day is shared only by records an earlier pass tagged
\* invalid keeps VALID and is in the dataframe that is merged.
C27_DuplicatesAmongValidOnly ==
    [][\A i \in DOMAIN vRows :
          (/\ vPc = "consistency" /\ vPc' = "duplicates"
           /\ vRows[i].status = "VALID"
           /\ \A k \in DOMAIN vRows :
                 (k # i /\ SameDay(vRows[k], vRows[i])) => vRows[k].status # "VALID")
          => \E j \in DOMAIN vRows' :
                vRows'[j].rid = vRows[i].rid /\ vRows'[j].status = "VALID"]_vars

----------------------------------------------------------------------------
(* The analytics functions called on their own, as the unit tests call them *)

InitUdf ==
    /\ deploy \in {"scripts", "udfs"}
    /\ raw = <<>> /\ offset = 0 /\ harmExists = FALSE /\ harm = <<>>
    /\ wh = "XSMALL"
    /\ s3 = NoBlobs /\ loaded = {} /\ noaa = <<>> /\ runs = NoRuns
    /\ hasData = FALSE
    /\ iPc = "idle" /\ df_new = <<>> /\ iTodo = <<>> /\ iPos = 0 /\ iBase = 0
    /\ iOut = Message("NONE", 0)
    /\ hPc = "idle" /\ hRead = <<>> /\ mergeResult = NoMerge /\ hCount = 0
    /\ hRes = Running
    /\ hHarm0 = <<>> /\ hOff0 = 0 /\ hOut = NoMessage
    /\ vPc = "off" /\ vIn = <<>> /\ vRows = <<>>
    /\ uArgs \in UdfValues \X UdfValues
    /\ uOut = NoCalls
    /\ aPc = "idle" /\ minmax = FALSE /\ daily = <<>> /\ weekly = <<>> /\ aOut = "NONE"
    /\ deleted = {} /\ rPc = "idle" /\ rOut = "NONE"

NextUdf ==
    \/ call_co2_percent_change \/ call_co2_weekly_percent_change
    \/ call_calculate_co2_volatility
    \/ call_co2_percent_change_swapped \/ call_calculate_co2_volatility_swapped

SpecUdf == InitUdf /\ [][NextUdf]_vars

\* out = (curr - prev) / prev * 100, the right side written as one fraction
IsPercentChange(out, prev, curr) ==
    out = Frac(100 * (curr.n * prev.d - prev.n * curr.d), curr.d * prev.n)

\* C21: both percent-change functions return (current - previous) / previous
\* * 100 when both arguments are numbers (or spell numbers) and previous is
\* not zero, so -100 for a current of zero; they return exactly 0.0 when an
\* argument is None or cannot be converted or previous is zero; no exception
\* leaves them.
C21_PercentChangeContract ==
    \A f \in {"daily", "weekly"} :
        uOut[f] # NotCalled =>
            /\ uOut[f].t = "num"
            /\ IF Convertible(uArgs[1]) /\ Convertible(uArgs[2]) /\ uArgs[1].n # 0
               THEN IsPercentChange(uOut[f], uArgs[1], uArgs[2])
               ELSE uOut[f] = Lit(0)

C21_Witness ==
    /\ uArgs = <<Lit(100), Lit(0)>>
    /\ uOut.daily = Lit(-100) /\ uOut.weekly = Lit(-100)

Sign(x) == IF x.n > 0 THEN 1 ELSE IF x.n < 0 THEN -1 ELSE 0

BothCalled == uOut.daily # NotCalled /\ uOut.daily_swapped # NotCalled

DistinctNonZero ==
    /\ uArgs[1].t = "num" /\ uArgs[2].t = "num"
    /\ uArgs[1].n # 0 /\ uArgs[2].n # 0
    /\ uArgs[1] # uArgs[2]

\* C22 as stated: for all numbers a, b, both not zero and a # b,
\* percent_change(a, b) and percent_change(b, a) have opposite signs.
C22_SignFlipUnderSwap ==
    (BothCalled /\ DistinctNonZero) =>
        /\ Sign(uOut.daily) # 0
        /\ Sign(uOut.daily) = -Sign(uOut.daily_swapped)

\* C22, amended: for all numbers a, b of the same sign (both positive or
\* both negative) with a # b, percent_change(a, b) and percent_change(b, a)
\* have opposite signs.
C22_SignFlipSameSign ==
    (BothCalled /\ DistinctNonZero /\ uArgs[1].n * uArgs[2].n > 0) =>
        /\ Sign(uOut.daily) # 0
        /\ Sign(uOut.daily) = -Sign(uOut.daily_swapped)

C22_Witness ==
    /\ uArgs = <<Lit(100), Lit(110)>>
    /\ Sign(uOut.daily) = 1 /\ Sign(uOut.daily_swapped) = -1

NotPositive(x) == x.t = "none" \/ (x.t = "num" /\ x.n <= 0)

Positive(x) == x.t = "num" /\ x.n > 0

\* C23: calculate_co2_volatility returns None, no number and no exception,
\* when an argument is None, zero or negative; for two positive arguments it
\* returns a number that is not negative, is the same with the arguments
\* swapped and is 0.0 when they are equal.
C23_VolatilityContract ==
    uOut.volatility # NotCalled =>
        /\ uOut.volatility.t # "raise"
        /\ (NotPositive(uArgs[1]) \/ NotPositive(uArgs[2])) => uOut.volatility = None
        /\ (Positive(uArgs[1]) /\ Positive(uArgs[2])) =>
              /\ uOut.volatility.t = "num" /\ uOut.volatility.n >= 0
              /\ uOut.volatility_swapped # NotCalled =>
                    uOut.volatility_swapped = uOut.volatility
              /\ uArgs[1] = uArgs[2] => uOut.volatility = Lit(0)

C23_Witness ==
    /\ uArgs = <<Lit(410), Lit(400)>>
    /\ uOut.volatility = Frac(24691, 10000)
    /\ uOut.volatility_swapped = Frac(24691, 10000)

C23_WitnessNone ==
    /\ uArgs = <<Lit(400), Lit(-10)>>
    /\ uOut.volatility = None

----------------------------------------------------------------------------
(* The analytics run over a harmonized table *)

\* rows of the harmonized table an analytics run starts from
MaxHarm == 3

\* 2023-01-02 is a Monday: three days of one week, the Monday of the next
\* and the Monday after
AnaDays == { 20230102, 20230103, 20230108, 20230109, 20230116 }

\* udfs_and_spoc/ merges every value the upstream delivers, scripts/ only
\* values of the accepted range
AnaPpm(dep) == IF dep = "scripts" THEN { 400, 410 } ELSE { 0, 400, 410 }

HarmRow(dep, date, ppm, k) ==
    IF dep = "scripts"
    THEN [date |-> date, ppm |-> ppm, site |-> "MAUNA_LOA", status |-> "VALID", rid |-> k]
    ELSE [date |-> date, ppm |-> ppm, site |-> NULL, status |-> NULL, rid |-> NULL]

RawRow(date, ppm) ==
    [year |-> date \div 10000, month |-> (date \div 100) % 100, day |-> date % 100,
     ppm |-> ppm]

InitAnalytics ==
    /\ deploy \in {"scripts", "udfs"}
    /\ \E in \in SeqUpTo(AnaDays \X AnaPpm(deploy), MaxHarm) :
          /\ \A i, j \in DOMAIN in : i # j => in[i][1] # in[j][1]
          /\ raw = [i \in DOMAIN in |-> RawRow(in[i][1], in[i][2])]
          /\ harm = [i \in DOMAIN in |-> HarmRow(deploy, in[i][1], in[i][2], i)]
    /\ offset = Len(raw)
    /\ harmExists = TRUE
    /\ wh = "XSMALL"
    /\ s3 = NoBlobs /\ loaded = {} /\ noaa = <<>> /\ runs = NoRuns
    /\ hasData = FALSE
    /\ iPc = "idle" /\ df_new = <<>> /\ iTodo = <<>> /\ iPos = 0 /\ iBase = 0
    /\ iOut = Message("NONE", 0)
    /\ hPc = "idle" /\ hRead = <<>> /\ mergeResult = NoMerge /\ hCount = 0
    /\ hRes = Running
    /\ hHarm0 = <<>> /\ hOff0 = 0 /\ hOut = NoMessage
    /\ vPc = "off" /\ vIn = <<>> /\ vRows = <<>>
    /\ uArgs = NoArgs /\ uOut = NoCalls
    /\ aPc = "idle" /\ minmax \in BOOLEAN /\ daily = <<>> /\ weekly = <<>> /\ aOut = "NONE"
    /\ deleted = {} /\ rPc = "idle" /\ rOut = "NONE"

NextAnalytics ==
    \/ ana_scale_up \/ ana_daily \/ ana_weekly \/ ana_scale_down \/ ana_raise
    \/ udf_ana_daily_scale_up \/ udf_ana_daily \/ udf_ana_daily_finally
    \/ udf_ana_weekly_scale_up \/ udf_ana_weekly \/ udf_ana_weekly_finally
    \/ udf_ana_raise \/ ana_return

SpecAnalytics == InitAnalytics /\ [][NextAnalytics]_vars

\* x and y differ by no more than half a unit of the third decimal, the
\* precision the tables of scripts/ keep
About(x, y) ==
    /\ x.t = "num" /\ y.t = "num"
    /\ LET diff == AbsF(Sub(x, y)) IN diff.n * 2000 <= diff.d

\* (curr - prev) / prev * 100 for two concentrations, prev not zero
PercentOf(prev, curr) == Frac(100 * (curr - prev), prev)

\* |curr - prev| / ((curr + prev) / 2) * 100 for two positive concentrations
VolatilityOf(curr, prev) == Frac(200 * Abs(curr - prev), curr + prev)

\* C24: in the daily output the first row in ascending date order and every
\* row whose previous value is zero have percent change exactly 0.0 and
\* volatility exactly 0.0, neither of them null.
C24_BoundaryRowsZero ==
    \A i \in DOMAIN daily :
        (daily[i].prev = None \/ daily[i].prev = Lit(0)) =>
            /\ daily[i].change = Lit(0)
            /\ daily[i].volatility = Lit(0)

\* C25: in the daily output the previous value of a date is the
\* concentration of the date before it in ascending order (null for the
\* earliest date) and its percent change is (current - previous) / previous
\* * 100 of its own concentration and that value, 0.0 for the earliest date.
C25_DailyChangeFromPrevious ==
    LET s == order_by_date(harm)
    IN daily # <<>> =>
          /\ Len(daily) = Len(s)
          /\ \A i \in DOMAIN s :
                \E k \in DOMAIN daily :
                   /\ daily[k].date = s[i].date
                   /\ daily[k].prev = (IF i = 1 THEN None ELSE Lit(s[i - 1].ppm))
                   /\ i = 1 => daily[k].change = Lit(0)
                   /\ (i > 1 /\ s[i - 1].ppm # 0) =>
                         About(daily[k].change, PercentOf(s[i - 1].ppm, s[i].ppm))

\* the concentration of the chronologically last date of week w
Representative(w) ==
    LET p == week_rows(order_by_date(harm), w) IN p[Len(p)].ppm

\* C28: the weekly output has one row for each 7-day week, the week's value
\* is the concentration of its last date, and the percent change and
\* volatility of a week are those of that value and the value of the week
\* before.
C28_WeeklyAcrossBuckets ==
    LET ws == week_starts(harm)
    IN weekly # <<>> =>
          /\ Len(weekly) = Len(ws)
          /\ \A k \in DOMAIN ws :
                \E j \in DOMAIN weekly :
                   /\ weekly[j].week_start = ws[k]
                   /\ About(weekly[j].last, Lit(Representative(ws[k])))
                   /\ (k > 1 /\ Representative(ws[k - 1]) # 0) =>
                         About(weekly[j].change,
                               PercentOf(Representative(ws[k - 1]), Representative(ws[k])))
                   /\ (k > 1 /\ Representative(ws[k - 1]) > 0 /\ Representative(ws[k]) > 0) =>
                         About(weekly[j].volatility,
                               VolatilityOf(Representative(ws[k]), Representative(ws[k - 1])))

----------------------------------------------------------------------------
(* force_stream_refresh_after_copy of scripts/02_create_rawco2data_stream.py, *)
(* called after the raw table is loaded and the stream created, with the    *)
(* harmonization runs that follow                                          *)

\* calls of force_stream_refresh_after_copy
MaxRefresh == 2

\* VALUES (9999, 12, 31, 9999.999, 999.99), the concentration in whole ppm
\* like the other rows
Dummy == [year |-> 9999, month |-> 12, day |-> 31, ppm |-> 999]

DummyIds == { i \in DOMAIN raw : raw[i].year = Dummy.year }

RefreshFrame ==
    /\ UNCHANGED <<s3, loaded, deploy, offset, harmExists, harm, wh, hasData>>
    /\ UNCHANGED ingestVars /\ UNCHANGED harmVars /\ UNCHANGED valVars /\ UNCHANGED loadVars
    /\ UNCHANGED udfVars /\ UNCHANGED anaVars

\* INSERT INTO CO2_DATA VALUES (9999, ...)
refresh_insert ==
    /\ rPc = "idle"
    /\ Cardinality(DummyIds) < MaxRefresh
    /\ raw' = Append(raw, Dummy)
    /\ rPc' = "delete"
    /\ UNCHANGED <<deleted, rOut>>
    /\ RefreshFrame

\* DELETE FROM CO2_DATA WHERE YEAR = 9999, then return True; the stream is
\* append-only and goes on reporting the insert
refresh_delete ==
    /\ rPc = "delete"
    /\ deleted' = deleted \cup DummyIds
    /\ rOut' = "True"
    /\ rPc' = "returned"
    /\ UNCHANGED <<raw>>
    /\ RefreshFrame

\* except Exception: return False; the insert or the delete raised
refresh_except ==
    /\ rPc \in {"idle", "delete"}
    /\ Cardinality(DummyIds) < MaxRefresh \/ rPc = "delete"
    /\ rOut' = "False"
    /\ rPc' = "returned"
    /\ UNCHANGED <<raw, deleted>>
    /\ RefreshFrame

refresh_return ==
    /\ rPc = "returned"
    /\ rPc' = "idle" /\ rOut' = "NONE"
    /\ UNCHANGED <<raw, deleted>>
    /\ RefreshFrame

NextRefresh ==
    \/ refresh_insert \/ refresh_delete \/ refresh_except \/ refresh_return
    \/ merge_begin \/ merge_statement \/ merge_count_invalid \/ merge_return \/ merge_except
    \/ udf_merge_begin \/ udf_merge_scale_up \/ udf_merge_stream_count
    \/ udf_merge_statement \/ udf_merge_except \/ udf_merge_finally \/ udf_main_error
    \/ main_return

SpecRefresh == InitRetry /\ [][NextRefresh]_vars

\* C30: the dummy row of force_stream_refresh_after_copy is never in the
\* harmonized table, whatever the stream reports and also when the delete
\* failed.
C30_DummyNeverHarmonized ==
    \A i \in DOMAIN harm : harm[i].date # RowDate(Dummy)

====
